---- MODULE Spec2Model ----
(***************************************************************************)
(* Verification model of the Selenia Web Server connection-processing      *)
(* engine.  Each component of the server is modelled from its source and   *)
(* has a specification of its own that drives only that component:         *)
(*   SpecSched        HTTP/2 scheduler, flow control       (http2.rs)      *)
(*   SpecTree         HTTP/2 priority tree                 (http2.rs)      *)
(*   SpecParser       HTTP/1.x request parser              (parser.rs)     *)
(*   SpecEngine       worker event loop                    (lib.rs)        *)
(*   SpecMaster       master process and its workers       (main.rs)       *)
(*   SpecMasterLive   the same, with fair scheduling       (main.rs)       *)
(*   SpecHpack        HPACK encoder feeding a decoder      (hpack.rs)      *)
(*   SpecHpackTables  the same, plus blocks from elsewhere (hpack.rs)      *)
(*   SpecStreams      HTTP/2 stream states                 (http2.rs)      *)
(*   SpecTls          TLS 1.3 handshake driver             (tls13.rs)      *)
(*   SpecRec          TLS 1.3 record protection            (tls13.rs)      *)
(*   SpecZeroRtt      QUIC 0-RTT packet buffer             (http3.rs)      *)
(*   SpecRateLimit    token-bucket rate limiter            (ratelimit.rs)  *)
(*   SpecPeerLimit    the limiter as the engine calls it   (lib.rs)        *)
(*   SpecChecks       WAF, method and RBAC checks          (lib.rs)        *)
(*   SpecFirst        the first request of a connection    (lib.rs)        *)
(*   SpecDns          DNS cache skip list, one thread      (dns.rs)        *)
(*   SpecEngineLive   the event loop, fairly scheduled     (lib.rs)        *)
(*   SpecKeepAlive    Keep-Alive tuning                    (keepalive.rs)  *)
(*   SpecTickets      TLS session ticket store             (tls13.rs)      *)
(*   SpecFlowControl  HTTP/2 windows at full width         (http2.rs)      *)
(*   SpecFrames       HTTP/2 frame parsing                 (http2.rs)      *)
(*   SpecEventLoop    epoll registration tokens            (event_loop.rs) *)
(*   SpecQuicSched    QUIC stream scheduler                (http3.rs)      *)
(*   SpecQuicSchedLive the same, with next called fairly   (http3.rs)      *)
(*   SpecFlowMgr      QUIC flow-control windows            (http3.rs)      *)
(*   SpecDnsRace      DNS cache, two inserting threads     (dns.rs)        *)
(*   SpecResumption   sessions resumed from tickets        (tls13.rs)      *)
(***************************************************************************)
EXTENDS Integers, Sequences, FiniteSets, TLC

\* ------------------------------------------------------------------------
\* Generic helpers
\* ------------------------------------------------------------------------
None == -1

Min(a, b) == IF a <= b THEN a ELSE b

Put(f, k, v) == [x \in (DOMAIN f) \cup {k} |-> IF x = k THEN v ELSE f[x]]

SeqWithout(s, x) == SelectSeq(s, LAMBDA e : e # x)

Range(s) == {s[i] : i \in DOMAIN s}

RECURSIVE SumSeq(_)
SumSeq(s) == IF s = <<>> THEN 0 ELSE Head(s) + SumSeq(Tail(s))

RECURSIVE Gcd(_, _)
Gcd(a, b) == IF b = 0 THEN a ELSE Gcd(b, a % b)

\* ========================================================================
\* HTTP/2 priority tree, flow control and scheduler (http2.rs)
\* ========================================================================
\* Bounds of the scheduler model.
MaxStreamId == 2
MaxQueued == 30000
MaxWindow == 65535

\* Program constants.
DEFAULT_CONN_WINDOW == 65535
DEFAULT_STREAM_WINDOW == 65535
I32Max == 2147483647

StreamIds == 1..MaxStreamId
ParentIds == 0..MaxStreamId
Weights == {1, 16}
FrameSizes == {30000, 65535}
QueueSizes == {30000}
Increments == {30000}

VARIABLES
    nodes,            \* PriorityTree.nodes: id -> StreamNode
    conn_window,      \* FlowControl.conn_window
    stream_windows,   \* FlowControl.stream_windows: id -> i32
    admitted,         \* history: per stream, bytes admitted since the last on_window_update
    budget,           \* history: per stream, min(conn window, stream window) at its first admission
    schedOp           \* the last scheduler operation and its result

schedVars == <<nodes, conn_window, stream_windows, admitted, budget, schedOp>>

\* StreamNode::new: weight.max(1), no children, nothing queued.
StreamNode(parent, weight) ==
    [weight |-> IF weight < 1 THEN 1 ELSE weight, parent |-> parent,
     children |-> <<>>, queued_bytes |-> 0]

\* PriorityTree::ensure_node: an unknown id becomes a child of the root.
ensure_node(ns, id) ==
    IF id \in DOMAIN ns THEN ns
    ELSE LET n1 == Put(ns, id, StreamNode(0, 16))
         IN  [n1 EXCEPT ![0].children = Append(@, id)]

\* The "move existing children of parent under node id" loop of add_stream and
\* reprioritize: parent links of the moved children now name id.
reparent_children(ns, children, id) ==
    [x \in DOMAIN ns |-> IF x \in Range(children) THEN [ns[x] EXCEPT !.parent = id] ELSE ns[x]]

\* PriorityTree::add_stream.
add_stream(ns, id, parent, weight, exclusive) ==
    LET parent_id == IF parent = id THEN 0 ELSE parent
        n1 == ensure_node(ns, parent_id)
        children == IF exclusive THEN n1[parent_id].children ELSE <<>>
        n2 == IF exclusive
              THEN reparent_children([n1 EXCEPT ![parent_id].children = <<>>], children, id)
              ELSE n1
        node == [StreamNode(parent_id, weight) EXCEPT !.children = children]
        n3 == Put(n2, id, node)
    IN  [n3 EXCEPT ![parent_id].children = Append(@, id)]

\* PriorityTree::reprioritize.
reprioritize(ns, id, new_parent, weight, exclusive) ==
    IF id \notin DOMAIN ns THEN ns
    ELSE
    LET old_parent == ns[id].parent
        n1 == IF old_parent \in DOMAIN ns
              THEN [ns EXCEPT ![old_parent].children = SeqWithout(@, id)]
              ELSE ns
        parent_id == IF new_parent = id THEN 0 ELSE new_parent
        n2 == ensure_node(n1, parent_id)
        n3 == [n2 EXCEPT ![id].parent = parent_id,
                         ![id].weight = IF weight < 1 THEN 1 ELSE weight]
        children == IF exclusive THEN n3[parent_id].children ELSE <<>>
        n4 == IF exclusive
              THEN reparent_children(
                     [n3 EXCEPT ![parent_id].children = <<>>,
                                ![id].children = n3[id].children \o children],
                     children, id)
              ELSE n3
    IN  [n4 EXCEPT ![parent_id].children = Append(@, id)]

\* PriorityTree::enqueue_bytes.
enqueue_bytes(ns, id, bytes) ==
    LET n1 == ensure_node(ns, id)
    IN  [n1 EXCEPT ![id].queued_bytes = @ + bytes]

\* A share of the root's bandwidth, kept as the exact fraction num/den.
ShareOf(ratio, w, total_w) ==
    LET n == ratio[1] * w
        d == ratio[2] * total_w
        g == Gcd(n, d)
    IN  <<n \div g, d \div g>>

\* share > 0.0001
AboveEpsilon(share) == share[1] > share[2] \div 10000

\* The inner `for c in &node.children` loop of pop_next_stream: the first child
\* with queued bytes and a share above the threshold is returned, the others
\* are pushed to the back of the queue.
RECURSIVE scan_children(_, _, _, _, _)
scan_children(ns, children, ratio, total_w, q) ==
    IF children = <<>> THEN [found |-> None, q |-> q]
    ELSE LET c == Head(children)
             share == ShareOf(ratio, ns[c].weight, total_w)
         IN  IF ns[c].queued_bytes > 0 /\ AboveEpsilon(share)
             THEN [found |-> c, q |-> q]
             ELSE scan_children(ns, Tail(children), ratio, total_w, Append(q, <<c, share>>))

\* The `while let Some((id, ratio)) = q.pop_front()` loop of pop_next_stream.
RECURSIVE bfs(_, _)
bfs(ns, q) ==
    IF q = <<>> THEN None
    ELSE LET id == Head(q)[1]
             ratio == Head(q)[2]
         IN  IF id \notin DOMAIN ns THEN None
             ELSE LET node == ns[id]
                      total_w == SumSeq([i \in DOMAIN node.children |-> ns[node.children[i]].weight])
                  IN  IF total_w = 0 THEN bfs(ns, Tail(q))
                      ELSE LET r == scan_children(ns, node.children, ratio, total_w, Tail(q))
                           IN  IF r.found # None THEN r.found ELSE bfs(ns, r.q)

\* PriorityTree::pop_next_stream.
pop_next_stream(ns) == bfs(ns, << <<0, <<1, 1>> >> >>)

\* FlowControl::window_for: an unknown stream gets the default window.
window_for(sw, id) == IF id \in DOMAIN sw THEN sw ELSE Put(sw, id, DEFAULT_STREAM_WINDOW)

\* `frame_size as i32`: the low 32 bits, read as a signed number.
AsI32(x) == IF x <= I32Max THEN x ELSE (x - I32Max) - I32Max - 2

\* The admission test of try_reserve, without the stream window.
reserve_allowed_conn_only(cw, sw, len) == ~(cw < len)

\* The admission test of try_reserve: `if self.conn_window < len || sw < len { return false; }`
reserve_allowed(cw, sw, len) == ~(cw < len \/ sw < len)

\* try_reserve with the stream's window left as it was on success.
try_reserve_conn_debit_only(cw, sws, id, len) ==
    LET s1 == window_for(sws, id)
    IN  IF reserve_allowed(cw, s1[id], len)
        THEN [ok |-> TRUE, conn_window |-> cw - len, stream_windows |-> s1]
        ELSE [ok |-> FALSE, conn_window |-> cw, stream_windows |-> s1]

\* FlowControl::try_reserve.
try_reserve(cw, sws, id, len) ==
    LET s1 == window_for(sws, id)
    IN  IF reserve_allowed(cw, s1[id], len)
        THEN [ok |-> TRUE, conn_window |-> cw - len, stream_windows |-> [s1 EXCEPT ![id] = @ - len]]
        ELSE [ok |-> FALSE, conn_window |-> cw, stream_windows |-> s1]

\* i32 addition as a release build wraps it.
AddI32(a, b) == IF a > 0 /\ b > I32Max - a THEN (a - I32Max - 1) + (b - I32Max - 1) ELSE a + b

\* saturating_sub on usize.
SatSub(a, b) == IF a >= b THEN a - b ELSE 0

InitSched ==
    /\ nodes = (0 :> StreamNode(0, 16))
    /\ conn_window = DEFAULT_CONN_WINDOW
    /\ stream_windows = << >>
    /\ admitted = [s \in StreamIds |-> 0]
    /\ budget = [s \in StreamIds |-> None]
    /\ schedOp = [op |-> "new"]

\* Scheduler::queue_data.
queue_data(stream_id, bytes) ==
    /\ (IF stream_id \in DOMAIN nodes THEN nodes[stream_id].queued_bytes ELSE 0) + bytes <= MaxQueued
    /\ nodes' = enqueue_bytes(nodes, stream_id, bytes)
    /\ schedOp' = [op |-> "queue_data", id |-> stream_id]
    /\ UNCHANGED <<conn_window, stream_windows, admitted, budget>>

\* Scheduler::next_stream.
next_stream(frame_size) ==
    LET id == pop_next_stream(nodes)
    IN  IF id = None
        THEN /\ schedOp' = [op |-> "next_stream", ret |-> None, frame_size |-> frame_size, picked |-> None]
             /\ UNCHANGED <<nodes, conn_window, stream_windows, admitted, budget>>
        ELSE LET r == try_reserve(conn_window, stream_windows, id, AsI32(frame_size))
                 before == Min(conn_window, window_for(stream_windows, id)[id])
             IN  /\ conn_window' = r.conn_window
                 /\ stream_windows' = r.stream_windows
                 /\ nodes' = IF r.ok
                             THEN [nodes EXCEPT ![id].queued_bytes = SatSub(@, frame_size)]
                             ELSE nodes
                 /\ admitted' = IF r.ok THEN [admitted EXCEPT ![id] = @ + frame_size] ELSE admitted
                 /\ budget' = IF r.ok /\ budget[id] = None
                              THEN [budget EXCEPT ![id] = before] ELSE budget
                 /\ schedOp' = [op |-> "next_stream", ret |-> IF r.ok THEN id ELSE None,
                                frame_size |-> frame_size, picked |-> id]

\* Scheduler::on_window_update (FlowControl::update_window).
on_window_update(stream_id, inc) ==
    /\ IF stream_id = 0
       THEN /\ AddI32(conn_window, inc) <= MaxWindow
            /\ conn_window' = Min(AddI32(conn_window, inc), I32Max)
            /\ UNCHANGED stream_windows
       ELSE LET s1 == window_for(stream_windows, stream_id)
            IN  /\ AddI32(s1[stream_id], inc) <= MaxWindow
                /\ stream_windows' = [s1 EXCEPT ![stream_id] = Min(AddI32(@, inc), I32Max)]
                /\ UNCHANGED conn_window
    /\ admitted' = [s \in StreamIds |-> 0]
    /\ budget' = [s \in StreamIds |-> None]
    /\ schedOp' = [op |-> "on_window_update", id |-> stream_id]
    /\ UNCHANGED nodes

\* Scheduler::on_priority.
on_priority(id, parent, weight, exclusive) ==
    /\ nodes' = IF id \in DOMAIN nodes
                THEN reprioritize(nodes, id, parent, weight, exclusive)
                ELSE add_stream(nodes, id, parent, weight, exclusive)
    /\ schedOp' = [op |-> "on_priority", id |-> id, parent |-> parent, exclusive |-> exclusive,
                   existed |-> id \in DOMAIN nodes]
    /\ UNCHANGED <<conn_window, stream_windows, admitted, budget>>

QueueData == \E s \in StreamIds, b \in QueueSizes : queue_data(s, b)

NextStream == \E f \in FrameSizes : next_stream(f)

WindowUpdate == \E s \in ParentIds, i \in Increments : on_window_update(s, i)

Priority == \E s \in StreamIds, p \in ParentIds, w \in Weights, e \in BOOLEAN : on_priority(s, p, w, e)

\* ========================================================================
\* HTTP/1 streaming parser (parser.rs).  Bytes are their ASCII codes; positions
\* are zero-based as in the source, so buf[i] of the source is buf[i + 1] here.
\* ========================================================================
CR == 13
LF == 10
COLON == 58
PLUS == 43

\* Bound of the parser model: advance calls made without new bytes.
MaxIdleAdvance == 2

\* "GET / HTTP/1.0\r\n\r\n"
ReqNoHeaders == <<71, 69, 84, 32, 47, 32, 72, 84, 84, 80, 47, 49, 46, 48, 13, 10, 13, 10>>

\* "GET / HTTP/1.1\r\nHost: x\r\n\r\n"
ReqGet == <<71, 69, 84, 32, 47, 32, 72, 84, 84, 80, 47, 49, 46, 49, 13, 10, 72, 111, 115, 116, 58, 32, 120, 13, 10, 13, 10>>

\* "GET /a HTTP/1.1\r\nConnection: close\r\n\r\n"
ReqGetClose == <<71, 69, 84, 32, 47, 97, 32, 72, 84, 84, 80, 47, 49, 46, 49, 13, 10, 67, 111, 110, 110, 101, 99, 116, 105, 111, 110, 58, 32, 99, 108, 111, 115, 101, 13, 10, 13, 10>>

\* "POST / HTTP/1.1\r\nContent-Length: 2\r\n\r\nhi"
ReqContentLength == <<80, 79, 83, 84, 32, 47, 32, 72, 84, 84, 80, 47, 49, 46, 49, 13, 10, 67, 111, 110, 116, 101, 110, 116, 45, 76, 101, 110, 103, 116, 104, 58, 32, 50, 13, 10, 13, 10, 104, 105>>

\* "POST / HTTP/1.1\r\nTransfer-Encoding: chunked\r\n\r\n2\r\nhi\r\n0\r\n\r\n"
ReqChunked == <<80, 79, 83, 84, 32, 47, 32, 72, 84, 84, 80, 47, 49, 46, 49, 13, 10, 84, 114, 97, 110, 115, 102, 101, 114, 45, 69, 110, 99, 111, 100, 105, 110, 103, 58, 32, 99, 104, 117, 110, 107, 101, 100, 13, 10, 13, 10, 50, 13, 10, 104, 105, 13, 10, 48, 13, 10, 13, 10>>

\* "GET / HTTP/1.1\r\nHost\r\n\r\n": a header line without a colon
ReqMalformed == <<71, 69, 84, 32, 47, 32, 72, 84, 84, 80, 47, 49, 46, 49, 13, 10, 72, 111, 115, 116, 13, 10, 13, 10>>

\* "content-length"
NameContentLength == <<99, 111, 110, 116, 101, 110, 116, 45, 108, 101, 110, 103, 116, 104>>

\* "transfer-encoding"
NameTransferEncoding == <<116, 114, 97, 110, 115, 102, 101, 114, 45, 101, 110, 99, 111, 100, 105, 110, 103>>

\* "chunked"
ValChunked == <<99, 104, 117, 110, 107, 101, 100>>

\* The valid requests the parser model is fed.
ValidRequests == {ReqNoHeaders, ReqGet, ReqGetClose, ReqContentLength, ReqChunked}

\* buf[from..] and buf[from..to] of the source.
SliceFrom(buf, from) == SubSeq(buf, from + 1, Len(buf))

Slice(buf, from, to) == SubSeq(buf, from + 1, to)

\* memchr: the position of the first `byte` in hay, or None.
memchr(byte, hay) ==
    LET hits == {i \in 1..Len(hay) : hay[i] = byte}
    IN  IF hits = {} THEN None
        ELSE (CHOOSE i \in hits : \A j \in hits : i <= j) - 1

\* find_double_crlf: the first window of four bytes that is "\r\n\r\n" or "\n\n\n\n".
find_double_crlf(buf) ==
    LET hits == {i \in 1..(Len(buf) - 3) :
                    SubSeq(buf, i, i + 3) \in {<<CR, LF, CR, LF>>, <<LF, LF, LF, LF>>}}
    IN  IF hits = {} THEN None
        ELSE (CHOOSE i \in hits : \A j \in hits : i <= j) - 1

\* trim_cr: one trailing CR is dropped.
trim_cr(line) ==
    IF Len(line) > 0 /\ line[Len(line)] = CR THEN SubSeq(line, 1, Len(line) - 1) ELSE line

\* char::is_ascii_whitespace: space, tab, LF, FF, CR.
AsciiWhitespace == {32, 9, 10, 12, 13}

\* White space as str::trim sees it, among the ASCII bytes.
IsTrimSpace(b) == b \in {32, 9, 10, 11, 12, 13}

\* str::trim.
RECURSIVE TrimStart(_)
TrimStart(s) == IF s # <<>> /\ IsTrimSpace(Head(s)) THEN TrimStart(Tail(s)) ELSE s

RECURSIVE TrimEnd(_)
TrimEnd(s) ==
    IF s # <<>> /\ IsTrimSpace(s[Len(s)]) THEN TrimEnd(SubSeq(s, 1, Len(s) - 1)) ELSE s

Trim(s) == TrimEnd(TrimStart(s))

\* slice::split(|b| b in seps): the pieces between the separators, empty ones included.
RECURSIVE SplitOn(_, _, _)
SplitOn(s, seps, cur) ==
    IF s = <<>> THEN <<cur>>
    ELSE IF Head(s) \in seps THEN <<cur>> \o SplitOn(Tail(s), seps, <<>>)
    ELSE SplitOn(Tail(s), seps, Append(cur, Head(s)))

\* split_ws: the non-empty pieces between ASCII white space.
split_ws(s) == SelectSeq(SplitOn(s, AsciiWhitespace, <<>>), LAMBDA v : v # <<>>)

\* eq_ignore_ascii_case.
Lower(b) == IF b >= 65 /\ b <= 90 THEN b + 32 ELSE b

EqIgnoreCase(a, b) ==
    /\ Len(a) = Len(b)
    /\ \A i \in 1..Len(a) : Lower(a[i]) = Lower(b[i])

\* The value of a digit in the given radix, or None.
DigitValue(b, radix) ==
    LET v == IF b >= 48 /\ b <= 57 THEN b - 48
             ELSE IF b >= 97 /\ b <= 122 THEN b - 97 + 10
             ELSE IF b >= 65 /\ b <= 90 THEN b - 65 + 10
             ELSE None
    IN  IF v # None /\ v < radix THEN v ELSE None

RECURSIVE DigitsValue(_, _, _)
DigitsValue(s, radix, acc) ==
    IF s = <<>> THEN acc
    ELSE IF DigitValue(Head(s), radix) = None THEN None
    ELSE DigitsValue(Tail(s), radix, acc * radix + DigitValue(Head(s), radix))

\* usize::from_str_radix (and str::parse::<usize> with radix 10): an optional
\* '+', then at least one digit; None on anything else.  The inputs of the model
\* stay far below usize::MAX.
from_str_radix(s, radix) ==
    LET digits == IF s # <<>> /\ Head(s) = PLUS THEN Tail(s) ELSE s
    IN  IF digits = <<>> THEN None ELSE DigitsValue(digits, radix, 0)

\* The header loop of collect_headers: [ok, headers]; ok is FALSE when a
\* non-empty line has no colon.
RECURSIVE parse_header_lines(_, _)
parse_header_lines(lines, acc) ==
    IF lines = <<>> THEN [ok |-> TRUE, headers |-> acc]
    ELSE LET line == trim_cr(Head(lines))
             col == memchr(COLON, line)
         IN  IF line = <<>> THEN parse_header_lines(Tail(lines), acc)
             ELSE IF col = None THEN [ok |-> FALSE, headers |-> acc]
             ELSE parse_header_lines(Tail(lines),
                     Append(acc, <<Trim(Slice(line, 0, col)), Trim(SliceFrom(line, col + 1))>>))

\* The body-length loop of collect_headers: [content_length, chunked].
RECURSIVE body_framing(_, _, _)
body_framing(headers, content_length, chunked) ==
    IF headers = <<>> THEN [content_length |-> content_length, chunked |-> chunked]
    ELSE LET name == Head(headers)[1]
             val == Head(headers)[2]
         IN  IF EqIgnoreCase(name, NameContentLength)
             THEN body_framing(Tail(headers),
                     IF from_str_radix(val, 10) # None THEN from_str_radix(val, 10) ELSE content_length,
                     chunked)
             ELSE IF EqIgnoreCase(name, NameTransferEncoding) /\ EqIgnoreCase(Trim(val), ValChunked)
             THEN body_framing(Tail(headers), content_length, TRUE)
             ELSE body_framing(Tail(headers), content_length, chunked)

\* parse_chunked_body: ok is FALSE for None; else body is the slice the source
\* returns and consumed counts the chunks and their terminators.
NoChunks == [ok |-> FALSE, body |-> <<>>, consumed |-> 0]

RECURSIVE chunk_loop(_, _, _)
chunk_loop(input, pos, body_start) ==
    LET nl == memchr(LF, SliceFrom(input, pos))
    IN  IF nl = None THEN NoChunks
        ELSE LET line_end == pos + nl
                 line == trim_cr(Slice(input, pos, line_end))
                 size == from_str_radix(Trim(line), 16)
                 pos1 == line_end + 1
             IN  IF size = None THEN NoChunks
                 ELSE IF size = 0
                 THEN IF Len(input) < pos1 + 2 THEN NoChunks
                      ELSE [ok |-> TRUE,
                            body |-> Slice(input, body_start, pos1 - (Len(line) + 1)),
                            consumed |-> pos1 + 2]
                 ELSE IF Len(input) < pos1 + size + 2 THEN NoChunks
                 ELSE chunk_loop(input, pos1 + size + 2,
                                 IF body_start = 0 THEN line_end + 1 ELSE body_start)

parse_chunked_body(input) == chunk_loop(input, 0, 0)

NoRequest == [method |-> <<>>, path |-> <<>>, version |-> <<>>, headers |-> <<>>, body |-> <<>>]

\* What advance hands back: kind is "Some" (a request and the bytes consumed),
\* "None" (need more data), "Err" (ParseError::Invalid) or "Panic" (a slice out
\* of range); state and index are the parser's fields afterwards.
ParseResult(kind, state, index, req, consumed) ==
    [kind |-> kind, state |-> state, index |-> index, req |-> req, consumed |-> consumed]

\* Parser::collect_headers, entered with state = Headers and index = start.
collect_headers(start, buf, req) ==
    LET slice == SliceFrom(buf, start)
        end_pos == find_double_crlf(slice)
    IN  IF end_pos = None THEN ParseResult("None", "Headers", start, NoRequest, 0)
        ELSE
        LET hl == parse_header_lines(SplitOn(Slice(slice, 0, end_pos), {LF}, <<>>), <<>>)
            consumed == start + end_pos + 4
            fr == body_framing(hl.headers, None, FALSE)
            req1 == [req EXCEPT !.headers = hl.headers]
        IN  IF ~hl.ok THEN ParseResult("Err", "Headers", start, NoRequest, 0)
            ELSE IF fr.content_length # None
            THEN IF Len(buf) < consumed + fr.content_length
                 THEN ParseResult("None", "Headers", start, NoRequest, 0)
                 ELSE ParseResult("Some", "Done", consumed + fr.content_length,
                          [req1 EXCEPT !.body = Slice(buf, consumed, consumed + fr.content_length)],
                          consumed + fr.content_length)
            ELSE IF fr.chunked
            THEN LET ch == parse_chunked_body(SliceFrom(buf, consumed))
                 IN  IF ~ch.ok THEN ParseResult("None", "Headers", start, NoRequest, 0)
                     ELSE ParseResult("Some", "Done", consumed + ch.consumed,
                              [req1 EXCEPT !.body = ch.body], consumed + ch.consumed)
            ELSE ParseResult("Some", "Done", consumed, req1, consumed)

\* The Headers arm of advance: "Should not reach here directly", Ok(None).
headers_arm(p, buf) == ParseResult("None", p.state, p.index, NoRequest, 0)

\* Parser::advance on parser p = [state, index].
advance(p, buf) ==
    IF p.index > Len(buf) THEN ParseResult("Panic", p.state, p.index, NoRequest, 0)
    ELSE
    LET start == p.index
        slice == SliceFrom(buf, start)
    IN  CASE p.state = "RequestLine" ->
               LET pos == memchr(LF, slice)
               IN  IF pos = None THEN ParseResult("None", p.state, p.index, NoRequest, 0)
                   ELSE LET parts == split_ws(trim_cr(Slice(slice, 0, pos)))
                        IN  IF Len(parts) < 3
                            THEN ParseResult("Err", p.state, p.index, NoRequest, 0)
                            ELSE collect_headers(start + pos + 1, buf,
                                     [NoRequest EXCEPT !.method = parts[1], !.path = parts[2],
                                                       !.version = parts[3]])
          [] p.state = "Headers" -> headers_arm(p, buf)
          [] OTHER -> ParseResult("None", p.state, p.index, NoRequest, 0)

\* Parser::new.
NewParser == [state |-> "RequestLine", index |-> 0]

VARIABLES
    pInput,      \* the bytes of the one request the client sends
    pBuf,        \* the connection buffer: the bytes that have arrived
    parser,      \* Parser {state, index}
    pRes,        \* what the last advance call returned
    pReads,      \* history: reads that appended bytes
    pSome,       \* history: advance calls that returned a request
    pIdle        \* history: advance calls made without new bytes

parserVars == <<pInput, pBuf, parser, pRes, pReads, pSome, pIdle>>

NoCall == ParseResult("NoCall", "RequestLine", 0, NoRequest, 0)

InitParser ==
    /\ pInput \in ValidRequests
    /\ pBuf = <<>>
    /\ parser = NewParser
    /\ pRes = NoCall
    /\ pReads = 0
    /\ pSome = 0
    /\ pIdle = 0

IdleParser ==
    /\ pInput = <<>>
    /\ pBuf = <<>>
    /\ parser = NewParser
    /\ pRes = NoCall
    /\ pReads = 0
    /\ pSome = 0
    /\ pIdle = 0

\* advance on the current buffer; the parser keeps the state and index it set.
CallAdvance(buf) ==
    LET r == advance(parser, buf)
    IN  /\ pRes' = r
        /\ parser' = [state |-> r.state, index |-> r.index]
        /\ pSome' = IF r.kind = "Some" THEN pSome + 1 ELSE pSome

\* A read appends the next n bytes of the request, then advance is called.
ParserRead(n) ==
    /\ pRes.kind # "Panic"
    /\ Len(pBuf) + n <= Len(pInput)
    /\ pBuf' = pBuf \o SubSeq(pInput, Len(pBuf) + 1, Len(pBuf) + n)
    /\ CallAdvance(pBuf')
    /\ pReads' = pReads + 1
    /\ UNCHANGED <<pInput, pIdle>>

\* advance is called again on the same buffer.
ParserAdvance ==
    /\ pRes.kind # "Panic"
    /\ pReads > 0
    /\ pIdle < MaxIdleAdvance
    /\ CallAdvance(pBuf)
    /\ pIdle' = pIdle + 1
    /\ UNCHANGED <<pInput, pBuf, pReads>>

ParserFeed == \E n \in 1..Len(pInput) : ParserRead(n)

\* ========================================================================
\* Connection engine (lib.rs run_server, the unix event loop) with the
\* clients and sockets it serves.  A connection is known by its token: the
\* accept threads queue the streams in accept order and register hands out
\* tokens in that order, starting at 1.
\* ========================================================================
\* Bounds of the engine model.
MaxConns == 1
MaxMessages == 2
MaxTime == 31

\* cfg.listen.len()
NumListeners == 1

READ_CHUNK == 1024
INITIAL_IDLE_TIMEOUT == 30
TUNE_REQUESTS == 1000
TUNE_PERIOD == 30
TUNE_STEP == 5
MIN_IDLE_TIMEOUT == 5
MAX_IDLE_TIMEOUT == 60
LISTENER_CAPACITY == 1024
TLS_HANDSHAKE == 22
TLS_RECORD_HEADER == 5
CLIENT_HELLO == 1
MIN_HELLO_BODY == 42
SUITES_OFFSET == 38

\* Seconds the clock may advance while poll waits.
TimeSteps == {0, 31}

\* "PRI * HTTP/2.0\r\n\r\nSM\r\n\r\n"
PREFACE == <<80, 82, 73, 32, 42, 32, 72, 84, 84, 80, 47, 50, 46, 48, 13, 10, 13, 10, 83, 77, 13, 10, 13, 10>>

\* A TLS handshake record whose two-byte body is not a ClientHello.
TlsRecord == <<22, 3, 1, 0, 2, 0, 0>>

\* A TLS handshake record of ten bytes; the low byte of its length is a line
\* feed, so its header can arrive in a read of its own.
TlsRecordLong == <<22, 3, 1, 0, 10, 0, 0, 0, 0, 0, 0, 0, 0, 0, 0>>

SUITE_TLS_AES_128_GCM_SHA256 == <<19, 1>>

\* "HTTP/1.0", "Connection", "keep-alive", "close"
VersionHttp10 == <<72, 84, 84, 80, 47, 49, 46, 48>>

NameConnection == <<67, 111, 110, 110, 101, 99, 116, 105, 111, 110>>

ValKeepAlive == <<107, 101, 101, 112, 45, 97, 108, 105, 118, 101>>

ValClose == <<99, 108, 111, 115, 101>>

\* What a client may send on a connection.
ClientMessages == {ReqGet, ReqGetClose, ReqNoHeaders, ReqMalformed, TlsRecord, TlsRecordLong, PREFACE}

IsPrefix(a, b) == Len(a) <= Len(b) /\ SubSeq(b, 1, Len(a)) = a

Drop(f, k) == [x \in (DOMAIN f) \ {k} |-> f[x]]

\* The tokens of set S in ascending order.
RECURSIVE Ascending(_)
Ascending(S) ==
    IF S = {} THEN <<>>
    ELSE LET m == CHOOSE x \in S : \A y \in S : x <= y
         IN  <<m>> \o Ascending(S \ {m})

\* http2::is_preface.
is_preface(buf) == IsPrefix(PREFACE, buf)

\* should_close: HTTP/1.0 closes unless "Connection: keep-alive"; any other
\* version closes only on "Connection: close".
should_close(req) ==
    IF req.version = VersionHttp10
    THEN ~(\E i \in DOMAIN req.headers :
              /\ EqIgnoreCase(req.headers[i][1], NameConnection)
              /\ EqIgnoreCase(req.headers[i][2], ValKeepAlive))
    ELSE \E i \in DOMAIN req.headers :
              /\ EqIgnoreCase(req.headers[i][1], NameConnection)
              /\ EqIgnoreCase(req.headers[i][2], ValClose)

\* tls13::process_client_hello on the handshake bytes: "Ok" (a ServerHello is
\* produced), "Err", or "Panic" when the cipher-suite slice leaves the body.
process_client_hello(hs) ==
    IF Len(hs) < 4 \/ hs[1] # CLIENT_HELLO THEN "Err"
    ELSE LET len == hs[2] * 65536 + hs[3] * 256 + hs[4]
         IN  IF Len(hs) < 4 + len THEN "Err"
             ELSE IF len < MIN_HELLO_BODY THEN "Err"
             ELSE LET body == Slice(hs, 4, 4 + len)
                      cs_len == body[SUITES_OFFSET + 1] * 256 + body[SUITES_OFFSET + 2]
                      idx == SUITES_OFFSET + 2
                  IN  IF cs_len = 0 THEN "Err"
                      ELSE IF idx + cs_len > len THEN "Panic"
                      ELSE IF \E i \in (idx + 1)..(idx + cs_len - 1) :
                                  SubSeq(body, i, i + 1) = SUITE_TLS_AES_128_GCM_SHA256
                           THEN "Ok"
                           ELSE "Err"

\* What the readable handler did with one connection: keep says whether the
\* connection goes back into the map, dereg whether ev.deregister was called,
\* outs what was written to the socket, disp the bytes of each request handed
\* to handle_request, fail how the handler left run_server ("none", "io" for
\* an error propagated by `?`, "panic").
Handled(keep, conn, dereg, outs, disp, fail) ==
    [keep |-> keep, conn |-> conn, dereg |-> dereg, outs |-> outs, disp |-> disp, fail |-> fail]

\* The parse loop of the readable handler on parser p and buffer buf.  ioOk
\* tells whether the next handle_request call returns Ok; outs and disp
\* collect what the earlier rounds of the loop wrote and dispatched.
RECURSIVE parse_loop(_, _, _, _, _, _)
parse_loop(p, buf, last_active, ioOk, outs, disp) ==
    LET r == advance(p, buf)
        conn0 == [buf |-> buf, parser |-> [state |-> r.state, index |-> r.index],
                  last_active |-> last_active]
        close_after == should_close(r.req)
        conn1 == [conn0 EXCEPT !.buf = SliceFrom(buf, r.consumed)]
        outs1 == Append(outs, [status |-> "response", keep_alive |-> ~close_after])
        disp1 == Append(disp, Slice(buf, 0, r.consumed))
    IN  CASE r.kind = "Some" ->
               IF ~ioOk THEN Handled(FALSE, conn1, FALSE, outs, disp1, "io")
               ELSE IF close_after THEN Handled(TRUE, conn1, TRUE, outs1, disp1, "none")
               ELSE IF conn1.buf = <<>> THEN Handled(TRUE, conn1, FALSE, outs1, disp1, "none")
               ELSE parse_loop(conn1.parser, conn1.buf, last_active, TRUE, outs1, disp1)
          [] r.kind = "None" -> Handled(TRUE, conn0, FALSE, outs, disp, "none")
          [] r.kind = "Err" ->
               Handled(TRUE, conn0, TRUE,
                       Append(outs, [status |-> "400 Bad Request", keep_alive |-> FALSE]),
                       disp, "none")
          [] OTHER -> Handled(FALSE, conn0, FALSE, outs, disp, "panic")

\* The readable handler, from conns.remove to conns.insert, on connection conn
\* whose socket holds the unread bytes wire; peer is "open", "closed" (the
\* client sent FIN) or "reset".  allowed is ratelimit::allow's answer.
readable(conn, wire, peer, time, allowed, ioOk) ==
    LET rd == IF peer = "reset" THEN "Err"
              ELSE IF wire # <<>> THEN "Ok"
              ELSE IF peer = "closed" THEN "Eof"
              ELSE "WouldBlock"
        n == Min(Len(wire), READ_CHUNK)
        buf == IF rd = "Ok" THEN conn.buf \o SubSeq(wire, 1, n) ELSE conn.buf
        conn1 == [conn EXCEPT !.buf = buf, !.last_active = time]
        rec_len == buf[4] * 256 + buf[5]
    IN  IF rd \in {"Eof", "Err"}
        THEN Handled(FALSE, conn, TRUE, <<>>, <<>>, "none")
        ELSE IF ~allowed
        THEN Handled(FALSE, conn1, TRUE,
                     << [status |-> "429 Too Many Requests", keep_alive |-> FALSE] >>, <<>>, "none")
        ELSE IF Len(buf) >= TLS_RECORD_HEADER /\ buf[1] = TLS_HANDSHAKE
                /\ Len(buf) >= TLS_RECORD_HEADER + rec_len
        THEN LET hello == process_client_hello(
                              Slice(buf, TLS_RECORD_HEADER, TLS_RECORD_HEADER + rec_len))
             IN  IF hello = "Panic" THEN Handled(FALSE, conn1, FALSE, <<>>, <<>>, "panic")
                 ELSE Handled(FALSE, conn1, TRUE,
                          IF hello = "Ok"
                          THEN << [status |-> "ServerHello", keep_alive |-> FALSE] >>
                          ELSE <<>>,
                          <<>>, "none")
        ELSE IF is_preface(buf)
        THEN Handled(FALSE, conn1, TRUE,
                     << [status |-> "SETTINGS ack, GOAWAY", keep_alive |-> FALSE] >>, <<>>, "none")
        ELSE parse_loop(conn1.parser, buf, time, ioOk, <<>>, <<>>)

\* The bytes read leave the socket.
after_read(wire, peer) ==
    IF peer = "reset" THEN wire ELSE SliceFrom(wire, Min(Len(wire), READ_CHUNK))

\* The idle timeout after one auto-tune step with `active` connections.
auto_tune(timeout, active) ==
    LET capacity == NumListeners * LISTENER_CAPACITY
    IN  IF active * 4 > 3 * capacity
        THEN IF SatSub(timeout, TUNE_STEP) > MIN_IDLE_TIMEOUT
             THEN SatSub(timeout, TUNE_STEP) ELSE MIN_IDLE_TIMEOUT
        ELSE IF active * 4 < capacity
        THEN Min(timeout + TUNE_STEP, MAX_IDLE_TIMEOUT)
        ELSE timeout

\* The idle scan with its comparison turned round.
idle_expired_inverted(cs, time, timeout) ==
    {t \in DOMAIN cs : time - cs[t].last_active < timeout}

\* The idle scan: the tokens of the connections whose time since last_active
\* exceeds the idle timeout.
idle_expired(cs, time, timeout) ==
    {t \in DOMAIN cs : time - cs[t].last_active > timeout}

VARIABLES
    eState,        \* where run_server is: "top", "events", "exited", "failed", "panicked"
    events,        \* the tokens poll returned that are still to be handled
    conns,         \* the connection map: token -> [buf, parser, last_active]
    entries,       \* EventLoop.entries: the registered tokens
    next_token,    \* EventLoop.next_token
    sock,          \* per accepted socket: [fd, wire, peer]
    client,        \* per client: [script, pos]: the messages chosen, bytes sent of the last
    dispatched,    \* history: per connection, the bytes of each request dispatched
    out,           \* history: per connection, what the server wrote
    now,           \* the clock, in seconds
    idle_timeout,
    req_count,
    last_adjust,
    terminate      \* the worker's TERMINATE flag

engineVars == <<eState, events, conns, entries, next_token, sock, client, dispatched, out,
                now, idle_timeout, req_count, last_adjust, terminate>>

InitEngine ==
    /\ eState = "top"
    /\ events = <<>>
    /\ conns = <<>>
    /\ entries = {}
    /\ next_token = 1
    /\ sock = <<>>
    /\ client = <<>>
    /\ dispatched = <<>>
    /\ out = <<>>
    /\ now = 0
    /\ idle_timeout = INITIAL_IDLE_TIMEOUT
    /\ req_count = 0
    /\ last_adjust = 0
    /\ terminate = FALSE

Running == eState \in {"top", "events"}

\* run_server returns or the process dies: every socket it holds is closed.
Leave(state) ==
    /\ eState' = state
    /\ events' = <<>>
    /\ conns' = <<>>
    /\ entries' = {}
    /\ sock' = [c \in DOMAIN sock |-> [sock[c] EXCEPT !.fd = "closed"]]

\* The messages of client c that have been sent completely.
FullySent(c) ==
    LET s == client[c].script
    IN  IF s = <<>> \/ client[c].pos = Len(s[Len(s)]) THEN s
        ELSE SubSeq(s, 1, Len(s) - 1)

\* A client connects; the accept thread queues the stream.
ClientConnect ==
    /\ Running
    /\ Len(sock) < MaxConns
    /\ sock' = Append(sock, [fd |-> "open", wire |-> <<>>, peer |-> "open"])
    /\ client' = Append(client, [script |-> <<>>, pos |-> 0])
    /\ dispatched' = Append(dispatched, <<>>)
    /\ out' = Append(out, <<>>)
    /\ UNCHANGED <<eState, events, conns, entries, next_token, now, idle_timeout,
                   req_count, last_adjust, terminate>>

MessagesStarted == SumSeq([c \in DOMAIN client |-> Len(client[c].script)])

\* The client decides what to send next.
ClientStart(c, m) ==
    /\ sock[c].fd = "open" /\ sock[c].peer = "open"
    /\ FullySent(c) = client[c].script
    /\ MessagesStarted < MaxMessages
    /\ client' = [client EXCEPT ![c] = [script |-> Append(@.script, m), pos |-> 0]]
    /\ UNCHANGED <<eState, events, conns, entries, next_token, sock, dispatched, out, now,
                   idle_timeout, req_count, last_adjust, terminate>>

\* The next bytes of the client's message reach the socket: the rest of the
\* message (whole), or its first line only.
ClientSend(c, whole) ==
    LET s == client[c].script
        m == s[Len(s)]
        rem == SliceFrom(m, client[c].pos)
        n == IF whole \/ memchr(LF, rem) = None THEN Len(rem) ELSE memchr(LF, rem) + 1
    IN  /\ sock[c].fd = "open" /\ sock[c].peer = "open"
        /\ s # <<>>
        /\ rem # <<>>
        /\ sock' = [sock EXCEPT ![c].wire = @ \o SubSeq(rem, 1, n)]
        /\ client' = [client EXCEPT ![c].pos = @ + n]
        /\ UNCHANGED <<eState, events, conns, entries, next_token, dispatched, out, now,
                       idle_timeout, req_count, last_adjust, terminate>>

\* The client closes its end (FIN) or resets the connection.
ClientClose(c, how) ==
    /\ sock[c].fd = "open" /\ sock[c].peer = "open"
    /\ sock' = [sock EXCEPT ![c].peer = how]
    /\ UNCHANGED <<eState, events, conns, entries, next_token, client, dispatched, out, now,
                   idle_timeout, req_count, last_adjust, terminate>>

\* SIGTERM reaches the worker: handle_sig stores TERMINATE.  The flag is read
\* at the top of the loop only, so the arrival is placed there.
WorkerSigterm ==
    /\ eState = "top"
    /\ ~terminate
    /\ terminate' = TRUE
    /\ UNCHANGED <<eState, events, conns, entries, next_token, sock, client, dispatched, out,
                   now, idle_timeout, req_count, last_adjust>>

\* The top of the loop up to the return of poll: the terminate check, the
\* registration of the queued streams, poll.  regOk and pollOk tell whether
\* ep.add and ep.wait succeed; dt is the time spent.
BeginIteration(dt, regOk, pollOk) ==
    LET pending == next_token..Len(sock)
        conns1 == [t \in (DOMAIN conns) \cup pending |->
                      IF t \in pending
                      THEN [buf |-> <<>>, parser |-> NewParser, last_active |-> now]
                      ELSE conns[t]]
        entries1 == entries \cup pending
        ready == {t \in entries1 : sock[t].fd = "open"
                                   /\ (sock[t].wire # <<>> \/ sock[t].peer # "open")}
    IN  /\ eState = "top"
        /\ now + dt <= MaxTime
        /\ IF terminate
           THEN Leave("exited") /\ UNCHANGED <<next_token, now>>
           ELSE IF pending # {} /\ ~regOk
           THEN Leave("failed") /\ next_token' = next_token + 1 /\ UNCHANGED now
           ELSE IF ~pollOk
           THEN Leave("failed") /\ next_token' = Len(sock) + 1 /\ UNCHANGED now
           ELSE /\ eState' = "events"
                /\ conns' = conns1
                /\ entries' = entries1
                /\ next_token' = Len(sock) + 1
                /\ now' = now + dt
                /\ events' = Ascending(ready)
                /\ UNCHANGED sock
        /\ UNCHANGED <<client, dispatched, out, idle_timeout, req_count, last_adjust, terminate>>

\* The body of the event loop for the next token poll returned.  deregOk tells
\* whether ep.delete succeeds.
HandleEvent(allowed, ioOk, deregOk) ==
    LET t == Head(events)
        wire1 == after_read(sock[t].wire, sock[t].peer)
    IN  /\ eState = "events"
        /\ events # <<>>
        /\ IF t \notin DOMAIN conns
           THEN /\ events' = Tail(events)
                /\ UNCHANGED <<eState, conns, entries, sock, dispatched, out, req_count>>
           ELSE \E h \in {readable(conns[t], sock[t].wire, sock[t].peer, now, allowed, ioOk)} :
                /\ dispatched' = [dispatched EXCEPT ![t] = @ \o h.disp]
                /\ out' = [out EXCEPT ![t] = @ \o h.outs]
                /\ req_count' = req_count + (IF h.fail = "io" THEN 0 ELSE Len(h.disp))
                /\ IF h.fail = "panic" THEN Leave("panicked")
                   ELSE IF h.fail = "io" THEN Leave("failed")
                   ELSE IF h.dereg /\ t \in entries /\ ~deregOk THEN Leave("failed")
                   ELSE /\ eState' = "events"
                        /\ events' = Tail(events)
                        /\ conns' = IF h.keep THEN Put(conns, t, h.conn) ELSE Drop(conns, t)
                        /\ entries' = IF h.dereg THEN entries \ {t} ELSE entries
                        /\ sock' = [sock EXCEPT ![t].wire = wire1,
                                                ![t].fd = IF h.keep THEN "open" ELSE "closed"]
        /\ UNCHANGED <<next_token, client, now, idle_timeout, last_adjust, terminate>>

\* The end of the iteration: the idle scan and the auto-tune step.
EndIteration ==
    LET to_remove == idle_expired(conns, now, idle_timeout)
        conns1 == [t \in (DOMAIN conns) \ to_remove |-> conns[t]]
        tune == req_count >= TUNE_REQUESTS \/ now - last_adjust > TUNE_PERIOD
    IN  /\ eState = "events"
        /\ events = <<>>
        /\ eState' = "top"
        /\ conns' = conns1
        /\ entries' = entries \ to_remove
        /\ sock' = [c \in DOMAIN sock |->
                       IF c \in to_remove THEN [sock[c] EXCEPT !.fd = "closed"] ELSE sock[c]]
        /\ idle_timeout' = IF tune THEN auto_tune(idle_timeout, Cardinality(DOMAIN conns1))
                           ELSE idle_timeout
        /\ req_count' = IF tune THEN 0 ELSE req_count
        /\ last_adjust' = IF tune THEN now ELSE last_adjust
        /\ UNCHANGED <<events, next_token, client, dispatched, out, now, terminate>>

\* Poll returns after time has passed.
EngineBeginLater ==
    \E dt \in TimeSteps \ {0}, regOk \in BOOLEAN, pollOk \in BOOLEAN :
        BeginIteration(dt, regOk, pollOk)

EngineClientStart == \E c \in DOMAIN client, m \in ClientMessages : ClientStart(c, m)

EngineClientSend == \E c \in DOMAIN client, whole \in BOOLEAN : ClientSend(c, whole)

EngineClientClose == \E c \in DOMAIN client, how \in {"closed", "reset"} : ClientClose(c, how)

EngineBegin == \E dt \in TimeSteps, regOk \in BOOLEAN, pollOk \in BOOLEAN : BeginIteration(dt, regOk, pollOk)

EngineHandle == \E allowed \in BOOLEAN, ioOk \in BOOLEAN, deregOk \in BOOLEAN : HandleEvent(allowed, ioOk, deregOk)

\* ------------------------------------------------------------------------
\* Properties of the connection engine
\* ------------------------------------------------------------------------
\* C2: on a keep-alive HTTP/1 connection the requests handed to the handler
\* are the complete requests the client sent, each once and in arrival order,
\* and the parse loop leaves a connection it keeps served only with bytes that
\* do not yet form a complete request.
C2_PipelinedRequestsDispatched ==
    \A t \in DOMAIN sock :
        /\ IsPrefix(dispatched[t], FullySent(t))
        /\ (t \in DOMAIN conns /\ t \in entries)
              => advance(NewParser, conns[t].buf).kind # "Some"

\* C23: at every idle scan each connection whose time since last activity
\* exceeds the idle timeout is deregistered, shut down and removed from the
\* map, and every other connection is left as it is; hence a connection that
\* stays silent, with time left for its timeout to pass, is eventually out of
\* the map.
C23_IdleScan ==
    /\ [][(eState = "events" /\ eState' = "top") =>
            \A t \in DOMAIN conns :
                IF now - conns[t].last_active > idle_timeout
                THEN /\ t \notin DOMAIN conns'
                     /\ t \notin entries'
                     /\ sock'[t].fd = "closed"
                ELSE /\ t \in DOMAIN conns' /\ conns'[t] = conns[t]
                     /\ sock'[t] = sock[t]
                     /\ (t \in entries' <=> t \in entries)]_engineVars
    /\ \A t \in 1..MaxConns :
          (t \in DOMAIN conns /\ conns[t].last_active + idle_timeout < MaxTime)
              ~> (t \notin DOMAIN conns \/ conns[t].last_active + idle_timeout >= MaxTime)

\* The idle scan has shut down a connection on which the client never sent a
\* byte and which it never closed.
C23_Witness ==
    \E t \in DOMAIN sock :
        /\ eState = "top" /\ now > INITIAL_IDLE_TIMEOUT
        /\ client[t].script = <<>> /\ sock[t].peer = "open"
        /\ sock[t].fd = "closed" /\ t \notin DOMAIN conns /\ t < next_token

\* C5: at the end of every iteration each connection in the map is registered
\* with the event loop, and a connection that was deregistered is out of the
\* map with its socket dropped.
C5_MapWithinRegistered ==
    eState = "top" =>
        /\ (DOMAIN conns) \subseteq entries
        /\ \A t \in 1..(next_token - 1) :
              t \notin entries => (t \notin DOMAIN conns /\ sock[t].fd = "closed")

\* C35: the index a connection's parser stores is never greater than the
\* length of the connection's buffer, whatever reads, advance calls and drains
\* have happened.
C35_IndexWithinBuffer ==
    \A t \in DOMAIN conns : conns[t].parser.index <= Len(conns[t].buf)

\* C36: an I/O error met while one connection is served (a response that
\* cannot be written, a file that cannot be read, a deregistration that
\* fails) does not end run_server: the handling of an event never leaves the
\* loop with an error.
C36_LoopSurvivesIoError ==
    [][(eState = "events" /\ events # <<>>) => eState' # "failed"]_engineVars

\* C37: a connection whose first byte is the TLS handshake type is never
\* answered by the HTTP/1 parse loop, however the reads split the record: while
\* the record is incomplete its bytes are only held.
C37_TlsNeverParsedAsHttp ==
    \A t \in DOMAIN sock :
        (client[t].script # <<>> /\ client[t].script[1][1] = TLS_HANDSHAKE) =>
            \A i \in DOMAIN out[t] : out[t][i].status \notin {"response", "400 Bad Request"}

\* ========================================================================
\* Master process (selenia_server main.rs, unix) and its worker processes.
\* A pid is the position of the process in procs.
\* ========================================================================
\* Bounds of the master model: the worker count (available_parallelism) and
\* the SIGHUPs delivered.
WorkerCount == 2
MaxSighups == 1

VARIABLES
    mPc,           \* where the master is: "init_spawn", "check", "term_signal",
                   \* "reload_spawn", "reload_signal", "reload_assign", "reap",
                   \* "sleep", "exited"
    workers,       \* the pids the master tracks
    new_workers,   \* the pids spawn_workers has collected in the reload branch
    loopIdx,       \* iterations done of the spawn_workers / signal_all loop
    TERMINATE,     \* the master's signal flags
    RELOAD,
    procs,         \* per child: [state, gen, termSent]; state is "running",
                   \* "zombie" (exited, not reaped) or "reaped"
    round,         \* history: reload branches entered
    attempts,      \* history: forks attempted in the current spawn_workers call
    hups,          \* history: SIGHUPs delivered
    termSeen       \* history: a terminate signal arrived while a tracked worker ran

masterVars == <<mPc, workers, new_workers, loopIdx, TERMINATE, RELOAD, procs, round,
                attempts, hups, termSeen>>

InitMaster ==
    /\ mPc = "init_spawn"
    /\ workers = <<>>
    /\ new_workers = <<>>
    /\ loopIdx = 0
    /\ TERMINATE = FALSE
    /\ RELOAD = FALSE
    /\ procs = <<>>
    /\ round = 0
    /\ attempts = 0
    /\ hups = 0
    /\ termSeen = FALSE

\* One iteration of the loop of spawn_workers: fork returns a pid (ok) or -1.
fork_child(ps, ok) ==
    IF ok THEN Append(ps, [state |-> "running", gen |-> round, termSent |-> FALSE]) ELSE ps

\* kill(pid, SIGTERM): the signal reaches a process that still runs.
kill(ps, pid) == [ps EXCEPT ![pid].termSent = TRUE]

\* workers.retain(|&pid| pid != dead).
retain(ws, dead) == SeqWithout(ws, dead)

\* The reload branch's last statement: workers = new_workers.
reload_workers_keeps_old(old, new) == old \o new

reload_workers(old, new) == new

\* Line 131: a step of the initial spawn_workers call.
MasterInitSpawn(ok) ==
    /\ mPc = "init_spawn"
    /\ procs' = fork_child(procs, ok)
    /\ workers' = IF ok THEN Append(workers, Len(procs) + 1) ELSE workers
    /\ attempts' = attempts + 1
    /\ loopIdx' = IF loopIdx + 1 = WorkerCount THEN 0 ELSE loopIdx + 1
    /\ mPc' = IF loopIdx + 1 = WorkerCount THEN "check" ELSE "init_spawn"
    /\ UNCHANGED <<new_workers, TERMINATE, RELOAD, round, hups, termSeen>>

\* Lines 134-143: the top of the supervision loop reads the flags.
MasterCheck ==
    /\ mPc = "check"
    /\ IF TERMINATE
       THEN /\ mPc' = "term_signal"
            /\ UNCHANGED <<RELOAD, round>>
       ELSE IF RELOAD
       THEN /\ mPc' = "reload_spawn"
            /\ RELOAD' = FALSE
            /\ round' = round + 1
       ELSE /\ mPc' = "reap"
            /\ UNCHANGED <<RELOAD, round>>
    /\ loopIdx' = 0
    /\ attempts' = 0
    /\ new_workers' = <<>>
    /\ UNCHANGED <<workers, TERMINATE, procs, hups, termSeen>>

\* Lines 135-136: a step of signal_all(&workers, SIGTERM), then break.
MasterTermSignal ==
    /\ mPc = "term_signal"
    /\ IF loopIdx < Len(workers)
       THEN /\ procs' = kill(procs, workers[loopIdx + 1])
            /\ loopIdx' = loopIdx + 1
            /\ mPc' = mPc
       ELSE /\ mPc' = "exited"
            /\ UNCHANGED <<procs, loopIdx>>
    /\ UNCHANGED <<workers, new_workers, TERMINATE, RELOAD, round, attempts, hups, termSeen>>

\* Line 140: a step of spawn_workers in the reload branch.
MasterReloadSpawn(ok) ==
    /\ mPc = "reload_spawn"
    /\ procs' = fork_child(procs, ok)
    /\ new_workers' = IF ok THEN Append(new_workers, Len(procs) + 1) ELSE new_workers
    /\ attempts' = attempts + 1
    /\ loopIdx' = IF loopIdx + 1 = WorkerCount THEN 0 ELSE loopIdx + 1
    /\ mPc' = IF loopIdx + 1 = WorkerCount THEN "reload_signal" ELSE "reload_spawn"
    /\ UNCHANGED <<workers, TERMINATE, RELOAD, round, hups, termSeen>>

\* Line 141: a step of signal_all(&workers, SIGTERM) on the old set.
MasterReloadSignal ==
    /\ mPc = "reload_signal"
    /\ IF loopIdx < Len(workers)
       THEN /\ procs' = kill(procs, workers[loopIdx + 1])
            /\ loopIdx' = loopIdx + 1
            /\ mPc' = mPc
       ELSE /\ mPc' = "reload_assign"
            /\ UNCHANGED <<procs, loopIdx>>
    /\ UNCHANGED <<workers, new_workers, TERMINATE, RELOAD, round, attempts, hups, termSeen>>

\* Line 142.
MasterReloadAssign ==
    /\ mPc = "reload_assign"
    /\ workers' = reload_workers(workers, new_workers)
    /\ mPc' = "reap"
    /\ UNCHANGED <<new_workers, loopIdx, TERMINATE, RELOAD, procs, round, attempts, hups,
                   termSeen>>

Children(st) == {pid \in DOMAIN procs : procs[pid].state = st}

\* Lines 146-148: wait_child.  libc::wait blocks while children run and none
\* has exited (the handlers are installed with SA_RESTART, so a signal does
\* not end the call); it returns -1 when no child is left.
MasterReap ==
    /\ mPc = "reap"
    /\ \/ \E dead \in Children("zombie") :
             /\ procs' = [procs EXCEPT ![dead].state = "reaped"]
             /\ workers' = retain(workers, dead)
             /\ mPc' = mPc
       \/ /\ Children("zombie") = {}
          /\ Children("running") = {}
          /\ mPc' = "sleep"
          /\ UNCHANGED <<procs, workers>>
    /\ UNCHANGED <<new_workers, loopIdx, TERMINATE, RELOAD, round, attempts, hups, termSeen>>

\* Line 150.
MasterSleep ==
    /\ mPc = "sleep"
    /\ mPc' = "check"
    /\ UNCHANGED <<workers, new_workers, loopIdx, TERMINATE, RELOAD, procs, round, attempts,
                   hups, termSeen>>

\* handle_sig in the master: SIGTERM or SIGINT.
MasterSigterm ==
    /\ mPc # "exited"
    /\ ~TERMINATE
    /\ TERMINATE' = TRUE
    /\ termSeen' = (termSeen \/ \E i \in DOMAIN workers : procs[workers[i]].state = "running")
    /\ UNCHANGED <<mPc, workers, new_workers, loopIdx, RELOAD, procs, round, attempts, hups>>

\* handle_sig in the master: SIGHUP.
MasterSighup ==
    /\ mPc # "exited"
    /\ hups < MaxSighups
    /\ RELOAD' = TRUE
    /\ hups' = hups + 1
    /\ UNCHANGED <<mPc, workers, new_workers, loopIdx, TERMINATE, procs, round, attempts,
                   termSeen>>

\* A worker that was sent SIGTERM leaves run_server and exits.
WorkerExit(pid) ==
    /\ procs[pid].state = "running"
    /\ procs[pid].termSent
    /\ procs' = [procs EXCEPT ![pid].state = "zombie"]
    /\ UNCHANGED <<mPc, workers, new_workers, loopIdx, TERMINATE, RELOAD, round, attempts,
                   hups, termSeen>>

\* A worker dies on its own (run_server returned an error, a panic).
WorkerCrash(pid) ==
    /\ procs[pid].state = "running"
    /\ ~procs[pid].termSent
    /\ procs' = [procs EXCEPT ![pid].state = "zombie"]
    /\ UNCHANGED <<mPc, workers, new_workers, loopIdx, TERMINATE, RELOAD, round, attempts,
                   hups, termSeen>>

MasterSpawn == \E ok \in BOOLEAN : MasterInitSpawn(ok)

MasterRespawn == \E ok \in BOOLEAN : MasterReloadSpawn(ok)

WorkerExits == \E pid \in DOMAIN procs : WorkerExit(pid)

WorkerCrashes == \E pid \in DOMAIN procs : WorkerCrash(pid)

\* ------------------------------------------------------------------------
\* Properties of the master
\* ------------------------------------------------------------------------
\* C6: a terminate signal delivered to the master while its workers run is
\* eventually acted on: the master has sent SIGTERM to every worker it tracks
\* and has left its supervision loop.
C6_TerminateActedOn ==
    termSeen ~> (mPc = "exited" /\ \A i \in DOMAIN workers : procs[workers[i]].termSent)

\* C7: in the reload branch no worker of the old set is sent SIGTERM before
\* spawn_workers has made all its fork attempts; every worker of the old set
\* has been sent SIGTERM before the tracked set is replaced; and after the
\* branch the master tracks exactly the workers forked in this reload.
C7_ReloadHandover ==
    /\ mPc = "reload_spawn" => \A i \in DOMAIN workers : ~procs[workers[i]].termSent
    /\ mPc \in {"reload_signal", "reload_assign"} => attempts = WorkerCount
    /\ mPc = "reload_assign" => \A i \in DOMAIN workers : procs[workers[i]].termSent
    /\ (mPc = "reap" /\ round > 0) =>
          \A pid \in DOMAIN procs :
              (\E i \in DOMAIN workers : workers[i] = pid)
                 <=> (procs[pid].gen = round /\ procs[pid].state # "reaped")

\* A reload that replaced a live old set by a new one has completed.
C7_Witness ==
    /\ mPc = "reap"
    /\ round > 0
    /\ workers # <<>>
    /\ \E pid \in DOMAIN procs : procs[pid].gen < round /\ procs[pid].termSent
    /\ \A i \in DOMAIN workers : procs[workers[i]].state = "running"

\* ========================================================================
\* HPACK codec (hpack.rs).  Strings are sequences of bytes.
\* ========================================================================
\* STATIC_TABLE (RFC 7541 Appendix A): 61 pairs <<name, value>> of byte strings.
STATIC_TABLE == <<
    \* 1: :authority
    <<<<58, 97, 117, 116, 104, 111, 114, 105, 116, 121>>, <<>>>>,
    \* 2: :method = GET
    <<<<58, 109, 101, 116, 104, 111, 100>>, <<71, 69, 84>>>>,
    \* 3: :method = POST
    <<<<58, 109, 101, 116, 104, 111, 100>>, <<80, 79, 83, 84>>>>,
    \* 4: :path = /
    <<<<58, 112, 97, 116, 104>>, <<47>>>>,
    \* 5: :path = /index.html
    <<<<58, 112, 97, 116, 104>>, <<47, 105, 110, 100, 101, 120, 46, 104, 116, 109, 108>>>>,
    \* 6: :scheme = http
    <<<<58, 115, 99, 104, 101, 109, 101>>, <<104, 116, 116, 112>>>>,
    \* 7: :scheme = https
    <<<<58, 115, 99, 104, 101, 109, 101>>, <<104, 116, 116, 112, 115>>>>,
    \* 8: :status = 200
    <<<<58, 115, 116, 97, 116, 117, 115>>, <<50, 48, 48>>>>,
    \* 9: :status = 204
    <<<<58, 115, 116, 97, 116, 117, 115>>, <<50, 48, 52>>>>,
    \* 10: :status = 206
    <<<<58, 115, 116, 97, 116, 117, 115>>, <<50, 48, 54>>>>,
    \* 11: :status = 304
    <<<<58, 115, 116, 97, 116, 117, 115>>, <<51, 48, 52>>>>,
    \* 12: :status = 400
    <<<<58, 115, 116, 97, 116, 117, 115>>, <<52, 48, 48>>>>,
    \* 13: :status = 404
    <<<<58, 115, 116, 97, 116, 117, 115>>, <<52, 48, 52>>>>,
    \* 14: :status = 500
    <<<<58, 115, 116, 97, 116, 117, 115>>, <<53, 48, 48>>>>,
    \* 15: accept-charset
    <<<<97, 99, 99, 101, 112, 116, 45, 99, 104, 97, 114, 115, 101, 116>>, <<>>>>,
    \* 16: accept-encoding = gzip, deflate, br
    <<<<97, 99, 99, 101, 112, 116, 45, 101, 110, 99, 111, 100, 105, 110, 103>>, <<103, 122, 105, 112, 44, 32, 100, 101, 102, 108, 97, 116, 101, 44, 32, 98, 114>>>>,
    \* 17: accept-language
    <<<<97, 99, 99, 101, 112, 116, 45, 108, 97, 110, 103, 117, 97, 103, 101>>, <<>>>>,
    \* 18: accept-ranges
    <<<<97, 99, 99, 101, 112, 116, 45, 114, 97, 110, 103, 101, 115>>, <<>>>>,
    \* 19: accept
    <<<<97, 99, 99, 101, 112, 116>>, <<>>>>,
    \* 20: access-control-allow-origin
    <<<<97, 99, 99, 101, 115, 115, 45, 99, 111, 110, 116, 114, 111, 108, 45, 97, 108, 108, 111, 119, 45, 111, 114, 105, 103, 105, 110>>, <<>>>>,
    \* 21: age
    <<<<97, 103, 101>>, <<>>>>,
    \* 22: allow
    <<<<97, 108, 108, 111, 119>>, <<>>>>,
    \* 23: authorization
    <<<<97, 117, 116, 104, 111, 114, 105, 122, 97, 116, 105, 111, 110>>, <<>>>>,
    \* 24: cache-control
    <<<<99, 97, 99, 104, 101, 45, 99, 111, 110, 116, 114, 111, 108>>, <<>>>>,
    \* 25: content-disposition
    <<<<99, 111, 110, 116, 101, 110, 116, 45, 100, 105, 115, 112, 111, 115, 105, 116, 105, 111, 110>>, <<>>>>,
    \* 26: content-encoding
    <<<<99, 111, 110, 116, 101, 110, 116, 45, 101, 110, 99, 111, 100, 105, 110, 103>>, <<>>>>,
    \* 27: content-language
    <<<<99, 111, 110, 116, 101, 110, 116, 45, 108, 97, 110, 103, 117, 97, 103, 101>>, <<>>>>,
    \* 28: content-length
    <<<<99, 111, 110, 116, 101, 110, 116, 45, 108, 101, 110, 103, 116, 104>>, <<>>>>,
    \* 29: content-location
    <<<<99, 111, 110, 116, 101, 110, 116, 45, 108, 111, 99, 97, 116, 105, 111, 110>>, <<>>>>,
    \* 30: content-range
    <<<<99, 111, 110, 116, 101, 110, 116, 45, 114, 97, 110, 103, 101>>, <<>>>>,
    \* 31: content-type
    <<<<99, 111, 110, 116, 101, 110, 116, 45, 116, 121, 112, 101>>, <<>>>>,
    \* 32: cookie
    <<<<99, 111, 111, 107, 105, 101>>, <<>>>>,
    \* 33: date
    <<<<100, 97, 116, 101>>, <<>>>>,
    \* 34: etag
    <<<<101, 116, 97, 103>>, <<>>>>,
    \* 35: expect
    <<<<101, 120, 112, 101, 99, 116>>, <<>>>>,
    \* 36: expires
    <<<<101, 120, 112, 105, 114, 101, 115>>, <<>>>>,
    \* 37: from
    <<<<102, 114, 111, 109>>, <<>>>>,
    \* 38: host
    <<<<104, 111, 115, 116>>, <<>>>>,
    \* 39: if-match
    <<<<105, 102, 45, 109, 97, 116, 99, 104>>, <<>>>>,
    \* 40: if-modified-since
    <<<<105, 102, 45, 109, 111, 100, 105, 102, 105, 101, 100, 45, 115, 105, 110, 99, 101>>, <<>>>>,
    \* 41: if-none-match
    <<<<105, 102, 45, 110, 111, 110, 101, 45, 109, 97, 116, 99, 104>>, <<>>>>,
    \* 42: if-range
    <<<<105, 102, 45, 114, 97, 110, 103, 101>>, <<>>>>,
    \* 43: if-unmodified-since
    <<<<105, 102, 45, 117, 110, 109, 111, 100, 105, 102, 105, 101, 100, 45, 115, 105, 110, 99, 101>>, <<>>>>,
    \* 44: last-modified
    <<<<108, 97, 115, 116, 45, 109, 111, 100, 105, 102, 105, 101, 100>>, <<>>>>,
    \* 45: link
    <<<<108, 105, 110, 107>>, <<>>>>,
    \* 46: location
    <<<<108, 111, 99, 97, 116, 105, 111, 110>>, <<>>>>,
    \* 47: max-forwards
    <<<<109, 97, 120, 45, 102, 111, 114, 119, 97, 114, 100, 115>>, <<>>>>,
    \* 48: proxy-authenticate
    <<<<112, 114, 111, 120, 121, 45, 97, 117, 116, 104, 101, 110, 116, 105, 99, 97, 116, 101>>, <<>>>>,
    \* 49: proxy-authorization
    <<<<112, 114, 111, 120, 121, 45, 97, 117, 116, 104, 111, 114, 105, 122, 97, 116, 105, 111, 110>>, <<>>>>,
    \* 50: range
    <<<<114, 97, 110, 103, 101>>, <<>>>>,
    \* 51: referer
    <<<<114, 101, 102, 101, 114, 101, 114>>, <<>>>>,
    \* 52: refresh
    <<<<114, 101, 102, 114, 101, 115, 104>>, <<>>>>,
    \* 53: retry-after
    <<<<114, 101, 116, 114, 121, 45, 97, 102, 116, 101, 114>>, <<>>>>,
    \* 54: server
    <<<<115, 101, 114, 118, 101, 114>>, <<>>>>,
    \* 55: set-cookie
    <<<<115, 101, 116, 45, 99, 111, 111, 107, 105, 101>>, <<>>>>,
    \* 56: strict-transport-security
    <<<<115, 116, 114, 105, 99, 116, 45, 116, 114, 97, 110, 115, 112, 111, 114, 116, 45, 115, 101, 99, 117, 114, 105, 116, 121>>, <<>>>>,
    \* 57: transfer-encoding
    <<<<116, 114, 97, 110, 115, 102, 101, 114, 45, 101, 110, 99, 111, 100, 105, 110, 103>>, <<>>>>,
    \* 58: user-agent
    <<<<117, 115, 101, 114, 45, 97, 103, 101, 110, 116>>, <<>>>>,
    \* 59: vary
    <<<<118, 97, 114, 121>>, <<>>>>,
    \* 60: via
    <<<<118, 105, 97>>, <<>>>>,
    \* 61: www-authenticate
    <<<<119, 119, 119, 45, 97, 117, 116, 104, 101, 110, 116, 105, 99, 97, 116, 101>>, <<>>>>
>>

\* H_CODES and H_BITS: the Huffman code and its length in bits of the symbols
\* 0-255 and EOS (256); symbol s is at position s + 1.
H_CODES == <<
    8184, 8388568, 268435426, 268435427, 268435428, 268435429, 268435430, 268435431, 268435432, 16777194, 1073741820, 268435433,
    268435434, 1073741821, 268435435, 268435436, 268435437, 268435438, 268435439, 268435440, 268435441, 268435442, 1073741822, 268435443,
    268435444, 268435445, 268435446, 268435447, 268435448, 268435449, 268435450, 268435451, 20, 1016, 1017, 4090,
    8185, 21, 248, 2042, 1018, 1019, 249, 2043, 250, 22, 23, 24,
    0, 1, 2, 25, 26, 27, 28, 29, 30, 31, 92, 251,
    32764, 32, 4091, 1020, 8186, 33, 93, 94, 95, 96, 97, 98,
    99, 100, 101, 102, 103, 104, 105, 106, 107, 108, 109, 110,
    111, 112, 113, 114, 252, 115, 253, 8187, 524272, 8188, 16380, 34,
    32765, 3, 35, 4, 36, 5, 37, 38, 39, 6, 116, 117,
    40, 41, 42, 7, 43, 118, 44, 8, 9, 45, 119, 120,
    121, 122, 123, 32766, 2044, 16381, 8189, 268435452, 1048550, 4194258, 1048551, 1048552,
    4194259, 4194260, 4194261, 8388569, 4194262, 8388570, 8388571, 8388572, 8388573, 8388574, 16777195, 8388575,
    16777196, 16777197, 4194263, 8388576, 16777198, 8388577, 8388578, 8388579, 8388580, 2097116, 4194264, 8388581,
    4194265, 8388582, 8388583, 16777199, 4194266, 2097117, 1048553, 4194267, 4194268, 8388584, 8388585, 2097118,
    8388586, 4194269, 4194270, 16777200, 2097119, 4194271, 8388587, 8388588, 2097120, 2097121, 4194272, 2097122,
    8388589, 4194273, 8388590, 8388591, 1048554, 4194274, 4194275, 4194276, 8388592, 4194277, 4194278, 8388593,
    67108832, 67108833, 1048555, 524273, 4194279, 8388594, 4194280, 33554412, 67108834, 67108835, 67108836, 134217694,
    134217695, 67108837, 16777201, 33554413, 524274, 2097123, 67108838, 134217696, 134217697, 67108839, 134217698, 16777202,
    2097124, 2097125, 67108840, 67108841, 268435453, 134217699, 134217700, 134217701, 1048556, 16777203, 1048557, 2097126,
    4194281, 2097127, 2097128, 8388595, 4194282, 4194283, 33554414, 33554415, 16777204, 16777205, 67108842, 8388596,
    67108843, 134217702, 67108844, 67108845, 134217703, 134217704, 134217705, 134217706, 134217707, 268435454, 134217708, 134217709,
    134217710, 134217711, 134217712, 67108846, 1073741823
>>

H_BITS == <<
    13, 23, 28, 28, 28, 28, 28, 28, 28, 24, 30, 28,
    28, 30, 28, 28, 28, 28, 28, 28, 28, 28, 30, 28,
    28, 28, 28, 28, 28, 28, 28, 28, 6, 10, 10, 12,
    13, 6, 8, 11, 10, 10, 8, 11, 8, 6, 6, 6,
    5, 5, 5, 6, 6, 6, 6, 6, 6, 6, 7, 8,
    15, 6, 11, 10, 13, 6, 7, 7, 7, 7, 7, 7,
    7, 7, 7, 7, 7, 7, 7, 7, 7, 7, 7, 7,
    7, 7, 7, 8, 7, 8, 13, 19, 13, 14, 6, 15,
    5, 6, 5, 6, 5, 6, 6, 6, 5, 7, 7, 6,
    6, 6, 5, 6, 7, 6, 5, 5, 6, 7, 7, 7,
    7, 7, 15, 11, 14, 13, 28, 20, 22, 20, 20, 22,
    22, 22, 23, 22, 23, 23, 23, 23, 23, 20, 23, 20,
    20, 22, 23, 20, 23, 23, 23, 23, 21, 22, 23, 22,
    23, 23, 20, 22, 21, 20, 22, 22, 23, 23, 21, 23,
    22, 22, 20, 21, 22, 23, 23, 21, 21, 22, 21, 23,
    22, 23, 23, 20, 22, 22, 22, 23, 22, 22, 23, 26,
    26, 20, 19, 22, 23, 22, 25, 26, 26, 26, 27, 27,
    26, 20, 25, 19, 21, 26, 27, 27, 26, 27, 20, 21,
    21, 26, 26, 28, 27, 27, 27, 20, 20, 20, 21, 22,
    21, 21, 23, 22, 22, 25, 25, 20, 20, 26, 23, 26,
    27, 26, 26, 27, 27, 27, 27, 27, 28, 27, 27, 27,
    27, 27, 26, 30, 0
>>

DEFAULT_DYNAMIC_TABLE_SIZE == 4096
ENTRY_OVERHEAD == 32
EOS == 256
FLAG_INDEXED == 128
FLAG_INCREMENTAL == 64
FLAG_SIZE_UPDATE == 32
FLAG_NEVER == 16
FLAG_HUFFMAN == 128
U64_BITS == 64

\* Bounds of the codec model: encode calls, and blocks handed to the decoder
\* that no encoder produced.
MaxBlocks == 2
MaxExtra == 2

\* Length of the long header value of the model.
LongLen == 4030

\* b | flag and b & flag != 0 for a one-bit flag.
HasFlag(b, flag) == (b \div flag) % 2 = 1

OrFlag(b, flag) == IF HasFlag(b, flag) THEN b ELSE b + flag

\* Bit k (from the least significant) of a code of H_CODES; the codes are
\* below 2^30.
Bit(code, k) == IF k > 30 THEN 0 ELSE (code \div (2 ^ k)) % 2

\* (bitbuf >> bits) & 0xFF; bitbuf is the u64 as the sequence of its bits,
\* least significant first.
ByteAt(bitbuf, bits) ==
    bitbuf[bits + 1] + 2 * bitbuf[bits + 2] + 4 * bitbuf[bits + 3] + 8 * bitbuf[bits + 4]
    + 16 * bitbuf[bits + 5] + 32 * bitbuf[bits + 6] + 64 * bitbuf[bits + 7]
    + 128 * bitbuf[bits + 8]

\* (bitbuf << n) | low: the bits move up n places, those moved past the top
\* are lost, and the bits of low (a code, or n ones) are or-ed in.
ShiftOr(bitbuf, n, low) ==
    SubSeq([k \in 1..U64_BITS |->
               IF k <= n THEN Bit(low, k - 1)
               ELSE IF bitbuf[k - n] = 1 THEN 1 ELSE Bit(low, k - 1)], 1, U64_BITS)

\* One round of the loop of huffman_encode on st = [bitbuf, bits, out]:
\* bitbuf = (bitbuf << blen) | code, with every bit of the code or-ed in,
\* also those above its blen low bits; then the full bytes are pushed.
huff_step(st, b) ==
    LET bitbuf == ShiftOr(st.bitbuf, H_BITS[b + 1], H_CODES[b + 1])
        total == st.bits + H_BITS[b + 1]
    IN  [bitbuf |-> bitbuf, bits |-> total % 8,
         out |-> st.out \o [i \in 1..(total \div 8) |-> ByteAt(bitbuf, total - 8 * i)]]

\* The loop of huffman_encode over data[lo..hi].
RECURSIVE huff_run(_, _, _, _)
huff_run(data, lo, hi, st) ==
    IF lo > hi THEN st
    ELSE IF lo = hi THEN huff_step(st, data[lo])
    ELSE huff_run(data, (lo + hi) \div 2 + 1, hi, huff_run(data, lo, (lo + hi) \div 2, st))

\* huffman_encode: the loop; then, when `bits` bits are left over, bitbuf is
\* shifted left by `bits`, `bits` ones are or-ed in, and the low eight bits
\* are pushed.
huffman_encode(data) ==
    LET st == huff_run(data, 1, Len(data),
                       [bitbuf |-> [k \in 1..U64_BITS |-> 0], bits |-> 0, out |-> <<>>])
    IN  IF st.bits > 0
        THEN Append(st.out, ByteAt(ShiftOr(st.bitbuf, st.bits, (2 ^ st.bits) - 1), 0))
        ELSE st.out

\* The bits huffman_encode shifts into bitbuf for data[lo..hi].
RECURSIVE huffman_bits(_, _, _)
huffman_bits(data, lo, hi) ==
    IF lo > hi THEN 0
    ELSE IF lo = hi THEN H_BITS[data[lo] + 1]
    ELSE huffman_bits(data, lo, (lo + hi) \div 2) + huffman_bits(data, (lo + hi) \div 2 + 1, hi)

\* The length of huffman_encode(data): one byte for every eight bits and one
\* for the bits left over.
huffman_len(data) == (huffman_bits(data, 1, Len(data)) + 7) \div 8

\* The long header value of the model: LongLen times "X".
LongValue == [i \in 1..LongLen |-> 88]

\* The path of symbol s (one-based) in the trie of build_huff_trie: the
\* H_BITS low bits of its code, as a number.
PathOf(s) == H_CODES[s] % (2 ^ H_BITS[s])

\* The symbol at the node reached by the `len` bits of value acc, or None;
\* of two symbols with one path the trie keeps the one inserted last.
SymbolOf(acc, len) ==
    LET hits == {s \in 1..257 : H_BITS[s] = len /\ PathOf(s) = acc}
    IN  IF hits = {} THEN None ELSE (CHOOSE s \in hits : \A r \in hits : r <= s) - 1

\* The trie of build_huff_trie has a node for the `len` bits of value acc
\* when they start the path of some symbol.
HasNode(acc, len) ==
    \E s \in 1..257 : H_BITS[s] >= len /\ PathOf(s) \div (2 ^ (H_BITS[s] - len)) = acc

\* The bit loop of huffman_decode over the bits of input from position pos
\* (zero-based bit position); acc and len are the path walked from the root
\* of the trie since the last symbol.  A step to a missing child fails.
RECURSIVE huff_walk(_, _, _, _, _)
huff_walk(input, pos, acc, len, outp) ==
    IF pos = 8 * Len(input) THEN [ok |-> TRUE, bytes |-> outp]
    ELSE LET bit == (input[pos \div 8 + 1] \div (2 ^ (7 - (pos % 8)))) % 2
             acc1 == acc * 2 + bit
             sym == SymbolOf(acc1, len + 1)
         IN  IF sym = EOS THEN [ok |-> FALSE, bytes |-> <<>>]
             ELSE IF sym # None THEN huff_walk(input, pos + 1, 0, 0, Append(outp, sym))
             ELSE IF ~HasNode(acc1, len + 1) THEN [ok |-> FALSE, bytes |-> <<>>]
             ELSE huff_walk(input, pos + 1, acc1, len + 1, outp)

\* huffman_decode: the walk, then the padding test on the low bits of buffer,
\* which are those of the last byte (buffer is 0 for an empty input).
huffman_decode(input) ==
    LET w == huff_walk(input, 0, 0, 0, <<>>)
        buffer == IF input = <<>> THEN 0 ELSE input[Len(input)]
        padding_ok == \E n \in 1..7 : buffer % (2 ^ n) = (2 ^ n) - 1
    IN  IF ~w.ok \/ ~padding_ok THEN [ok |-> FALSE, bytes |-> <<>>] ELSE w

\* The continuation bytes of encode_integer.
RECURSIVE integer_tail(_)
integer_tail(value) ==
    IF value >= 128 THEN <<(value % 128) + 128>> \o integer_tail(value \div 128)
    ELSE <<value>>

encode_integer(value, prefix_bits) ==
    LET max_prefix == (2 ^ prefix_bits) - 1
    IN  IF value < max_prefix THEN <<value>>
        ELSE <<max_prefix>> \o integer_tail(value - max_prefix)

NoInteger == [ok |-> FALSE, val |-> 0, idx |-> 0]

\* The continuation loop of decode_integer.
RECURSIVE integer_loop(_, _, _, _)
integer_loop(buf, idx, m, val) ==
    IF idx >= Len(buf) THEN NoInteger
    ELSE LET b == buf[idx + 1]
             val1 == val + (b % 128) * (2 ^ m)
         IN  IF b < 128 THEN [ok |-> TRUE, val |-> val1, idx |-> idx + 1]
             ELSE integer_loop(buf, idx + 1, m + 7, val1)

\* decode_integer: [ok, val, idx], idx the bytes consumed.
decode_integer(buf, prefix_bits) ==
    IF buf = <<>> THEN NoInteger
    ELSE LET mask == (2 ^ prefix_bits) - 1
             val == buf[1] % (2 ^ prefix_bits)
         IN  IF val = mask THEN integer_loop(buf, 1, 0, val)
             ELSE [ok |-> TRUE, val |-> val, idx |-> 1]

\* encode_string: Huffman when its length is below 0.8 of the plain length
\* (the f32 product is exact where it decides the comparison).
encode_string(s) ==
    IF huffman_len(s) * 10 < Len(s) * 8
    THEN LET huff == huffman_encode(s)
             outp == encode_integer(Len(huff), 7)
         IN  [outp EXCEPT ![1] = OrFlag(@, FLAG_HUFFMAN)] \o huff
    ELSE encode_integer(Len(s), 7) \o s

NoString == [ok |-> FALSE, str |-> <<>>, idx |-> 0]

\* String::from_utf8 on the bytes the model meets: ASCII is valid UTF-8; the
\* model's blocks never hold other bytes in a string.
from_utf8_ok(bytes) == \A i \in DOMAIN bytes : bytes[i] < 128

\* decode_string: [ok, str, idx].
decode_string(buf) ==
    IF buf = <<>> THEN NoString
    ELSE LET huffman == HasFlag(buf[1], FLAG_HUFFMAN)
             li == decode_integer(buf, 7)
         IN  IF ~li.ok THEN NoString
             ELSE IF Len(buf) < li.idx + li.val THEN NoString
             ELSE LET data == Slice(buf, li.idx, li.idx + li.val)
                      hd == IF huffman THEN huffman_decode(data) ELSE [ok |-> TRUE, bytes |-> data]
                  IN  IF ~hd.ok \/ ~from_utf8_ok(hd.bytes) THEN NoString
                      ELSE [ok |-> TRUE, str |-> hd.bytes, idx |-> li.idx + li.val]

\* Entry::new; seq is history: the entry is the seq-th inserted into its table.
NewEntry(name, value, seq) ==
    [name |-> name, value |-> value, size |-> Len(name) + Len(value) + ENTRY_OVERHEAD,
     seq |-> seq]

\* HpackEncoder::new / HpackDecoder::new; inserted and evicted are history.
NewTable ==
    [dyn_tab |-> <<>>, size |-> 0, max_size |-> DEFAULT_DYNAMIC_TABLE_SIZE,
     inserted |-> 0, evicted |-> 0]

\* evict_to_size with the newest entry popped instead of the oldest.
RECURSIVE evict_newest_first(_)
evict_newest_first(t) ==
    IF t.size > t.max_size /\ t.dyn_tab # <<>>
    THEN evict_newest_first([t EXCEPT !.dyn_tab = Tail(@),
                                      !.size = @ - Head(t.dyn_tab).size,
                                      !.evicted = @ + 1])
    ELSE t

\* evict_to_size on table t = [dyn_tab, size, max_size]: pop_back while the
\* size exceeds the maximum.  The front of dyn_tab is the newest entry.
RECURSIVE evict_to_size(_)
evict_to_size(t) ==
    IF t.size > t.max_size /\ t.dyn_tab # <<>>
    THEN evict_to_size([t EXCEPT !.dyn_tab = SubSeq(@, 1, Len(@) - 1),
                                 !.size = @ - t.dyn_tab[Len(t.dyn_tab)].size,
                                 !.evicted = @ + 1])
    ELSE t

\* The insert of encode and decode: only an entry that fits max_size goes in.
insert_entry(t, name, value) ==
    LET entry == NewEntry(name, value, t.inserted + 1)
    IN  IF entry.size <= t.max_size
        THEN evict_to_size([t EXCEPT !.size = @ + entry.size,
                                     !.dyn_tab = <<entry>> \o @,
                                     !.inserted = @ + 1])
        ELSE t

\* iter().position(..): zero-based position of the first of the one-based
\* positions hits, or None.
Position(hits) ==
    IF hits = {} THEN None ELSE (CHOOSE i \in hits : \A j \in hits : i <= j) - 1

\* One round of the loop of HpackEncoder::encode: [t, out] after header h.
encode_header(t, h) ==
    LET name == h[1]
        value == h[2]
        static_full == Position({i \in DOMAIN STATIC_TABLE :
                                    STATIC_TABLE[i][1] = name /\ STATIC_TABLE[i][2] = value})
        dyn_full == Position({i \in DOMAIN t.dyn_tab :
                                 t.dyn_tab[i].name = name /\ t.dyn_tab[i].value = value})
        static_name == Position({i \in DOMAIN STATIC_TABLE : STATIC_TABLE[i][1] = name})
        dyn_name == Position({i \in DOMAIN t.dyn_tab : t.dyn_tab[i].name = name})
        name_index == IF static_name # None THEN static_name + 1
                      ELSE IF dyn_name # None THEN dyn_name + 1
                      ELSE None
        indexed(idx) == LET bytes == encode_integer(idx, 7)
                        IN  [bytes EXCEPT ![1] = OrFlag(@, FLAG_INDEXED)]
        prefix == LET bytes == encode_integer(name_index, 6)
                  IN  [bytes EXCEPT ![1] = OrFlag(@, FLAG_INCREMENTAL)]
    IN  IF static_full # None THEN [t |-> t, out |-> indexed(static_full + 1)]
        ELSE IF dyn_full # None
        THEN [t |-> t, out |-> indexed(Len(STATIC_TABLE) + dyn_full + 1)]
        ELSE [t |-> insert_entry(t, name, value),
              out |-> (IF name_index # None THEN prefix
                       ELSE <<FLAG_INCREMENTAL>> \o encode_string(name))
                      \o encode_string(value)]

\* HpackEncoder::encode: [t, out].
RECURSIVE hpack_encode(_, _, _)
hpack_encode(t, headers, outp) ==
    IF headers = <<>> THEN [t |-> t, out |-> outp]
    ELSE LET r == encode_header(t, Head(headers))
         IN  hpack_encode(r.t, Tail(headers), outp \o r.out)

NoPair == [ok |-> FALSE, name |-> <<>>, value |-> <<>>]

\* HpackDecoder::resolve_index.
resolve_index(t, index) ==
    IF index = 0 THEN NoPair
    ELSE IF index <= Len(STATIC_TABLE)
    THEN [ok |-> TRUE, name |-> STATIC_TABLE[index][1], value |-> STATIC_TABLE[index][2]]
    ELSE LET dyn_index == index - Len(STATIC_TABLE)
         IN  IF dyn_index > Len(t.dyn_tab) THEN NoPair
             ELSE [ok |-> TRUE, name |-> t.dyn_tab[dyn_index].name,
                   value |-> t.dyn_tab[dyn_index].value]

\* The name of a literal representation with a prefix of prefix_bits bits:
\* [ok, name, rest], rest the bytes after the name.
literal_name(t, buf, prefix_bits) ==
    IF buf[1] % (2 ^ prefix_bits) = 0
    THEN LET n == decode_string(SliceFrom(buf, 1))
         IN  [ok |-> n.ok, name |-> n.str, rest |-> SliceFrom(buf, 1 + n.idx)]
    ELSE LET i == decode_integer(buf, prefix_bits)
             p == resolve_index(t, i.val)
         IN  [ok |-> i.ok /\ p.ok, name |-> p.name, rest |-> SliceFrom(buf, i.idx)]

\* HpackDecoder::decode: [ok, headers, t]; on an error the table keeps what the
\* representations before it did.
RECURSIVE hpack_decode(_, _, _)
hpack_decode(t, buf, headers) ==
    IF buf = <<>> THEN [ok |-> TRUE, headers |-> headers, t |-> t]
    ELSE
    LET b == buf[1]
        failed == [ok |-> FALSE, headers |-> <<>>, t |-> t]
    IN  IF HasFlag(b, FLAG_INDEXED)
        THEN LET i == decode_integer(buf, 7)
                 p == resolve_index(t, i.val)
             IN  IF ~i.ok \/ ~p.ok THEN failed
                 ELSE hpack_decode(t, SliceFrom(buf, i.idx), Append(headers, <<p.name, p.value>>))
        ELSE IF HasFlag(b, FLAG_INCREMENTAL)
        THEN LET n == literal_name(t, buf, 6)
                 v == decode_string(n.rest)
             IN  IF ~n.ok \/ ~v.ok THEN failed
                 ELSE hpack_decode(insert_entry(t, n.name, v.str), SliceFrom(n.rest, v.idx),
                                   Append(headers, <<n.name, v.str>>))
        ELSE IF HasFlag(b, FLAG_SIZE_UPDATE)
        THEN LET i == decode_integer(buf, 5)
             IN  IF ~i.ok \/ i.val > t.max_size THEN failed
                 ELSE hpack_decode(evict_to_size([t EXCEPT !.max_size = i.val]),
                                   SliceFrom(buf, i.idx), headers)
        ELSE LET n == literal_name(t, buf, 4)
                 v == decode_string(n.rest)
             IN  IF ~n.ok \/ ~v.ok THEN failed
                 ELSE hpack_decode(t, SliceFrom(n.rest, v.idx), Append(headers, <<n.name, v.str>>))

\* Header names and values of the model: ":method", "GET", "cookie", "x-a",
\* "x-l", "1", "2", "200", and LongLen times "X".
StrMethod == <<58, 109, 101, 116, 104, 111, 100>>

StrGet == <<71, 69, 84>>

StrCookie == <<99, 111, 111, 107, 105, 101>>

StrXA == <<120, 45, 97>>

StrXL == <<120, 45, 108>>

Str1 == <<49>>

Str2 == <<50>>

Str200 == <<50, 48, 48>>

\* The header lists handed to the encoder.
HeaderLists ==
    { << <<StrMethod, StrGet>>, <<StrXA, Str1>> >>,
      << <<StrXA, Str1>>, <<StrXA, Str2>> >>,
      << <<StrXA, Str1>> >>,
      << <<StrCookie, Str1>> >>,
      << <<StrCookie, Str200>> >>,
      << <<StrXL, LongValue>> >> }

\* Blocks for the decoder that no encoder produced: dynamic table size updates
\* to 40, to 0 and to 5000, a literal without indexing ("x-a: 1") and a
\* never-indexed literal with an indexed name (cookie: "1").
SizeUpdateValues == {0, 40, 5000}

\* The dynamic table size update representation (001xxxxx) of value v.
SizeUpdate(v) == [encode_integer(v, 5) EXCEPT ![1] = OrFlag(@, FLAG_SIZE_UPDATE)]

ExtraBlocks ==
    { SizeUpdate(v) : v \in SizeUpdateValues } \cup
    { <<0>> \o encode_string(StrXA) \o encode_string(Str1),
      <<FLAG_NEVER + 15, 17>> \o encode_string(Str1) }

VARIABLES
    encoder,     \* the HpackEncoder: [dyn_tab, size, max_size] and history
    decoder,     \* the HpackDecoder
    hQueue,      \* the blocks encoded and not yet decoded: [sent, block]
    hLast,       \* the last decode call: [kind, sent, block, ok, headers]
    hEncodes,    \* history: encode calls
    hExtras      \* history: extra blocks decoded

hpackVars == <<encoder, decoder, hQueue, hLast, hEncodes, hExtras>>

NoDecode == [kind |-> "none", sent |-> <<>>, block |-> <<>>, ok |-> TRUE, headers |-> <<>>]

InitHpack ==
    /\ encoder = NewTable
    /\ decoder = NewTable
    /\ hQueue = <<>>
    /\ hLast = NoDecode
    /\ hEncodes = 0
    /\ hExtras = 0

\* encoder.encode(headers); the block is queued for the decoder.
Encode(headers) ==
    /\ hEncodes < MaxBlocks
    /\ \E r \in {hpack_encode(encoder, headers, <<>>)} :
          /\ encoder' = r.t
          /\ hQueue' = Append(hQueue, [sent |-> headers, block |-> r.out])
    /\ hEncodes' = hEncodes + 1
    /\ UNCHANGED <<decoder, hLast, hExtras>>

\* decoder.decode(block) on the oldest block not yet decoded.
Decode ==
    /\ hQueue # <<>>
    /\ \E r \in {hpack_decode(decoder, Head(hQueue).block, <<>>)} :
          /\ decoder' = r.t
          /\ hLast' = [kind |-> "block", sent |-> Head(hQueue).sent,
                       block |-> Head(hQueue).block, ok |-> r.ok, headers |-> r.headers]
    /\ hQueue' = Tail(hQueue)
    /\ UNCHANGED <<encoder, hEncodes, hExtras>>

\* decoder.decode(block) on a block that did not come from the encoder.
DecodeExtra(block) ==
    /\ hExtras < MaxExtra
    /\ \E r \in {hpack_decode(decoder, block, <<>>)} :
          /\ decoder' = r.t
          /\ hLast' = [kind |-> "extra", sent |-> <<>>, block |-> block, ok |-> r.ok,
                       headers |-> r.headers]
    /\ hExtras' = hExtras + 1
    /\ UNCHANGED <<encoder, hQueue, hEncodes>>

HpackEncode == \E headers \in HeaderLists : Encode(headers)

HpackDecodeExtra == \E block \in ExtraBlocks : DecodeExtra(block)

\* ------------------------------------------------------------------------
\* Properties of the HPACK codec
\* ------------------------------------------------------------------------
\* C9: header lists encoded in order by one encoder and decoded in the same
\* order by one decoder come out as they went in.
C9_RoundTrip ==
    (hLast.kind = "block" /\ hExtras = 0) => (hLast.ok /\ hLast.headers = hLast.sent)

\* The recorded size of a table is the sum of its entries' sizes.
RECURSIVE SumSizes(_)
SumSizes(tab) ==
    IF tab = <<>> THEN 0
    ELSE Len(Head(tab).name) + Len(Head(tab).value) + ENTRY_OVERHEAD + SumSizes(Tail(tab))

TableInvariant(t) ==
    /\ t.size = SumSizes(t.dyn_tab)
    /\ t.size <= t.max_size
    /\ \A i \in DOMAIN t.dyn_tab : t.dyn_tab[i].seq = t.inserted - i + 1

\* C10: in each dynamic table the recorded size is the sum of name length +
\* value length + 32 over its entries and is at most max_size, and the entries
\* are the most recently inserted ones, newest first (eviction took the oldest).
C10_TableSizes == TableInvariant(encoder) /\ TableInvariant(decoder)

\* Both tables have evicted an entry and hold one.
C10_Witness ==
    /\ encoder.evicted > 0 /\ encoder.dyn_tab # <<>>
    /\ decoder.evicted > 0 /\ decoder.dyn_tab # <<>>

\* C11: the decoder accepts a block that is one dynamic table size update
\* exactly when the value is at most the peer-agreed maximum, 4096, whatever
\* size updates came before.
C11_SizeUpdateBound ==
    \A v \in SizeUpdateValues :
        (hLast.kind = "extra" /\ hLast.block = SizeUpdate(v))
            => (hLast.ok <=> v <= DEFAULT_DYNAMIC_TABLE_SIZE)

\* ------------------------------------------------------------------------
\* Properties of the parser
\* ------------------------------------------------------------------------
\* C3: a fresh Parser given a buffer that holds exactly one valid request
\* returns the request, exactly once, with consumed equal to the request's
\* length; given a proper prefix it returns "need more data", never a request.
C3_OneShotParse ==
    /\ (pReads = 1 /\ pIdle = 0 /\ pBuf = pInput)
          => (pRes.kind = "Some" /\ pRes.consumed = Len(pInput))
    /\ (pReads = 1 /\ pBuf # pInput) => (pRes.kind = "None" /\ pSome = 0)
    /\ (pReads = 1) => pSome <= 1

\* C4: fed over several reads, every advance call made before the last byte
\* has arrived returns "need more data" and the call made once the whole request
\* is buffered returns the request (stated for the requests that a fresh Parser
\* parses from the whole buffer).
C4_Incremental ==
    /\ (pReads >= 1 /\ pBuf # pInput) => pRes.kind = "None"
    /\ (pReads >= 2 /\ pIdle = 0 /\ pBuf = pInput /\ advance(NewParser, pInput).kind = "Some")
          => pRes.kind = "Some"

WindowOf(sws, s) == IF s \in DOMAIN sws THEN sws[s] ELSE DEFAULT_STREAM_WINDOW

QueuedOf(ns, s) == IF s \in DOMAIN ns THEN ns[s].queued_bytes ELSE 0

C40_SendableStreamSelected ==
    [][schedOp'.op = "next_stream" =>
        ((\E s \in StreamIds :
              /\ QueuedOf(nodes, s) > 0
              /\ WindowOf(stream_windows, s) >= schedOp'.frame_size
              /\ conn_window >= schedOp'.frame_size)
            => schedOp'.ret # None)]_schedVars

\* The number of places at which node n is listed as a child.
ChildSlots(n) ==
    {<<p, i>> \in (DOMAIN nodes) \X (1..Cardinality(DOMAIN nodes)) :
        i \in DOMAIN nodes[p].children /\ nodes[p].children[i] = n}

RECURSIVE ReachesRoot(_, _)
ReachesRoot(n, fuel) ==
    IF n = 0 THEN TRUE
    ELSE IF fuel = 0 \/ n \notin DOMAIN nodes THEN FALSE
    ELSE ReachesRoot(nodes[n].parent, fuel - 1)

\* C8: the priority nodes form a tree rooted at virtual stream 0: every node
\* other than 0 is listed as a child exactly once, by the node its parent field
\* names, and its parent links lead to 0.
C8_RootedTree ==
    \A n \in (DOMAIN nodes) \ {0} :
        /\ Cardinality(ChildSlots(n)) = 1
        /\ \A slot \in ChildSlots(n) : slot[1] = nodes[n].parent
        /\ ReachesRoot(n, Cardinality(DOMAIN nodes))

\* ========================================================================
\* HTTP/2 stream state machine (http2.rs, Connection)
\* ========================================================================
FLAG_END_STREAM == 1

\* FrameType.
FrameTypes ==
    {"Data", "Headers", "Priority", "RstStream", "Settings", "PushPromise", "Ping",
     "GoAway", "WindowUpdate", "Continuation"}

\* The flags bytes of the model: END_STREAM set or not.
FrameFlags == {0, FLAG_END_STREAM}

\* The match of on_frame with a DATA arm that does not test END_STREAM.
on_frame_ignores_end_stream(state, type_, flags) ==
    IF state = "Idle" /\ type_ \in {"Headers", "Priority"} THEN "Open"
    ELSE IF state = "Open" /\ type_ = "Data" THEN "HalfClosedRemote"
    ELSE state

\* The match of Connection::on_frame: the state of the stream after a frame
\* of type type_ with the given flags arrived in the given state.
on_frame(state, type_, flags) ==
    CASE state = "Idle" ->
            IF type_ \in {"Headers", "Priority"} THEN "Open"
            ELSE IF type_ = "PushPromise" THEN "ReservedRemote"
            ELSE state
      [] state = "Open" ->
            IF type_ = "Data" THEN (IF flags % 2 = 1 THEN "HalfClosedRemote" ELSE state)
            ELSE IF type_ = "RstStream" THEN "Closed"
            ELSE state
      [] state = "HalfClosedRemote" ->
            IF type_ = "RstStream" THEN "Closed" ELSE state
      [] state = "HalfClosedLocal" ->
            IF type_ = "RstStream" THEN "Closed" ELSE state
      [] OTHER -> state

VARIABLES
    streams,       \* Connection.streams: id -> StreamState
    h2Last,        \* the last call: [op, type_, flags, before, after, changed, unlisted]
    h2Unlisted     \* history: on_frame saw a (state, type) pair outside the listed ones

streamVars == <<streams, h2Last, h2Unlisted>>

\* The (state, frame type) pairs of the transitions of RFC 7540 5.1 that the
\* server's state machine names.
ListedPairs ==
    { <<"Idle", "Headers">>, <<"Idle", "Priority">>, <<"Idle", "PushPromise">>,
      <<"Open", "Data">>, <<"Open", "RstStream">>, <<"HalfClosedRemote", "RstStream">> }

NoFrame ==
    [op |-> "none", type_ |-> "none", flags |-> 0, before |-> "Idle", after |-> "Idle",
     changed |-> FALSE, unlisted |-> FALSE]

\* Connection::new.
InitStreams ==
    /\ streams = <<>>
    /\ h2Last = NoFrame
    /\ h2Unlisted = FALSE

\* conn.on_frame(fh): the entry is created Idle when missing, then matched.
OnFrame(stream_id, type_, flags) ==
    LET before == IF stream_id \in DOMAIN streams THEN streams[stream_id] ELSE "Idle"
        after == on_frame(before, type_, flags)
    IN  /\ streams' = Put(streams, stream_id, after)
        /\ h2Last' = [op |-> "on_frame", type_ |-> type_, flags |-> flags,
                      before |-> before, after |-> after,
                      changed |-> streams' # streams, unlisted |-> h2Unlisted]
        /\ h2Unlisted' = (h2Unlisted \/ <<before, type_>> \notin ListedPairs)

\* conn.on_data_frame(stream_id, len, end_stream); Connection has no field
\* fc, so what self.fc.try_reserve returns is an input (reserved).
OnDataFrame(stream_id, end_stream, reserved) ==
    LET before == IF stream_id \in DOMAIN streams THEN streams[stream_id] ELSE "Idle"
        hit == reserved /\ end_stream /\ stream_id \in DOMAIN streams
    IN  /\ streams' = IF hit THEN [streams EXCEPT ![stream_id] = "HalfClosedRemote"]
                      ELSE streams
        /\ h2Last' = [op |-> "on_data_frame", type_ |-> "Data",
                      flags |-> IF end_stream THEN FLAG_END_STREAM ELSE 0,
                      before |-> before,
                      after |-> IF hit THEN "HalfClosedRemote" ELSE before,
                      changed |-> streams' # streams, unlisted |-> h2Unlisted]
        /\ UNCHANGED h2Unlisted

ConnOnFrame ==
    \E stream_id \in StreamIds, type_ \in FrameTypes, flags \in FrameFlags :
        OnFrame(stream_id, type_, flags)

ConnOnDataFrame ==
    \E stream_id \in StreamIds, end_stream \in BOOLEAN, reserved \in BOOLEAN :
        OnDataFrame(stream_id, end_stream, reserved)

\* ------------------------------------------------------------------------
\* Properties of the stream state machine
\* ------------------------------------------------------------------------
\* C12: on_frame changes a stream's state only by Idle -> Open on HEADERS or
\* PRIORITY, Idle -> ReservedRemote on PUSH_PROMISE, Open -> HalfClosedRemote
\* on DATA with END_STREAM, Open -> Closed and HalfClosedRemote -> Closed on
\* RST_STREAM; a Closed stream stays Closed.
C12_StreamTransitions ==
    h2Last.op = "on_frame" =>
        /\ \/ h2Last.after = h2Last.before
           \/ h2Last.before = "Idle" /\ h2Last.type_ \in {"Headers", "Priority"}
                 /\ h2Last.after = "Open"
           \/ h2Last.before = "Idle" /\ h2Last.type_ = "PushPromise"
                 /\ h2Last.after = "ReservedRemote"
           \/ h2Last.before = "Open" /\ h2Last.type_ = "Data"
                 /\ h2Last.flags = FLAG_END_STREAM /\ h2Last.after = "HalfClosedRemote"
           \/ h2Last.before \in {"Open", "HalfClosedRemote"} /\ h2Last.type_ = "RstStream"
                 /\ h2Last.after = "Closed"
        /\ h2Last.before = "Closed" => h2Last.after = "Closed"

\* A HEADERS frame arrived on a Closed stream while another stream went from
\* HalfClosedRemote to Closed before.
C12_Witness ==
    /\ h2Last.op = "on_frame" /\ h2Last.before = "Closed" /\ h2Last.type_ = "Headers"
    /\ \E id \in DOMAIN streams : streams[id] = "HalfClosedRemote"

\* C13: once a frame arrived whose (state, type) pair is none of the listed
\* ones, the connection is in error and on_frame processes no further frame:
\* it changes nothing.
C13_UnlistedIsConnectionError ==
    (h2Last.op = "on_frame" /\ h2Last.unlisted) => ~h2Last.changed

\* ========================================================================
\* TLS 1.3 server handshake state machine (tls13.rs, Tls13Server)
\* ========================================================================
\* Bound of the handshake model: drive calls on one Tls13Server.
MaxDrives == 3

SERVER_HELLO == 2
SERVER_HELLO_LENGTH == 38
RANDOM_LENGTH == 32
LEGACY_VERSION == <<3, 3>>

\* n bytes of value b.
Bytes(n, b) == [i \in 1..n |-> b]

\* A ClientHello handshake message whose cipher-suite list is declared cs_len
\* bytes long and holds the bytes suites: type 1, 24-bit length, legacy
\* version, random and an empty session id (38 bytes), the list.
ClientHello(cs_len, suites) ==
    <<CLIENT_HELLO, 0, 0, SUITES_OFFSET + 2 + Len(suites)>> \o Bytes(SUITES_OFFSET, 0)
        \o <<cs_len \div 256, cs_len % 256>> \o suites

\* A TLSPlaintext record of the given content type around fragment.
Plaintext(content_type, fragment) ==
    <<content_type, 3, 1, Len(fragment) \div 256, Len(fragment) % 256>> \o fragment

\* Records that carry a ClientHello offering TLS_AES_128_GCM_SHA256, alone or
\* after another suite.
DecodableHellos ==
    { Plaintext(TLS_HANDSHAKE, ClientHello(2, SUITE_TLS_AES_128_GCM_SHA256)),
      Plaintext(TLS_HANDSHAKE, ClientHello(4, <<19, 2>> \o SUITE_TLS_AES_128_GCM_SHA256)) }

\* Complete records that carry no decodable ClientHello: another suite only,
\* an empty suite list, a suite list declared longer than the message, a
\* handshake message that is not a ClientHello, a truncated ClientHello, and
\* an application data record.
UndecodableRecords ==
    { Plaintext(TLS_HANDSHAKE, ClientHello(2, <<19, 2>>)),
      Plaintext(TLS_HANDSHAKE, ClientHello(0, <<19, 1>>)),
      Plaintext(TLS_HANDSHAKE, ClientHello(6, <<19, 1>>)),
      Plaintext(TLS_HANDSHAKE, <<SERVER_HELLO, 0, 0, 0>>),
      Plaintext(TLS_HANDSHAKE, <<CLIENT_HELLO, 0, 0, 42, 3, 3>>),
      Plaintext(23, <<0>>) }

\* What drive is fed: the records above, the empty slice, and a fragment
\* shorter than a record header.
DriveInputs == DecodableHellos \cup UndecodableRecords \cup {<<>>, <<TLS_HANDSHAKE, 3, 1>>}

\* The ServerHello record process_client_hello builds around the 32 random
\* bytes: handshake type 2, length 38, version, random, session id length,
\* suite, compression, extensions length; wrapped into a record of type 22.
server_hello(random) ==
    LET payload == <<SERVER_HELLO, 0, 0, SERVER_HELLO_LENGTH>> \o LEGACY_VERSION \o random
                       \o <<0>> \o SUITE_TLS_AES_128_GCM_SHA256 \o <<0>> \o <<0, 0>>
    IN  <<TLS_HANDSHAKE>> \o LEGACY_VERSION
            \o <<Len(payload) \div 256, Len(payload) % 256>> \o payload

\* Tls13Server::drive on server = [state, hs_context]: the server after the
\* call, the bytes returned (out, with result "Some") or result "None", or
\* result "Panic" when process_client_hello panics and the call does not
\* return.  hs_context tells whether the key material is Some; random are the
\* bytes fill_random gave for the ServerHello.
drive(server, record, random) ==
    LET stay(res) == [state |-> server.state, hs_context |-> server.hs_context,
                      out |-> <<>>, result |-> res]
        to(state) == [state |-> state, hs_context |-> server.hs_context,
                      out |-> <<>>, result |-> "None"]
    IN  CASE server.state = "AwaitClientHello" ->
                IF record = <<>> \/ record[1] # TLS_HANDSHAKE THEN to("Failed")
                ELSE IF Len(record) < TLS_RECORD_HEADER THEN stay("None")
                ELSE LET hello == process_client_hello(SliceFrom(record, TLS_RECORD_HEADER))
                     IN  IF hello = "Ok"
                         THEN [state |-> "SentServerHello", hs_context |-> TRUE,
                               out |-> server_hello(random), result |-> "Some"]
                         ELSE IF hello = "Panic" THEN stay("Panic")
                         ELSE to("Failed")
          [] server.state = "SentServerHello" -> to("Established")
          [] OTHER -> stay("None")

VARIABLES
    tlsServer,     \* the Tls13Server: [state, hs_context]
    tlsLast,       \* the last drive call: [op, record, before, after, out, result]
    tlsFed,        \* history: the records fed so far
    tlsEmitted     \* history: the outputs returned so far

tlsVars == <<tlsServer, tlsLast, tlsFed, tlsEmitted>>

NoDrive ==
    [op |-> "none", record |-> <<>>, before |-> "AwaitClientHello",
     after |-> "AwaitClientHello", out |-> <<>>, result |-> "None"]

\* Tls13Server::new.
InitTls ==
    /\ tlsServer = [state |-> "AwaitClientHello", hs_context |-> FALSE]
    /\ tlsLast = NoDrive
    /\ tlsFed = <<>>
    /\ tlsEmitted = <<>>

\* server.drive(record); after a panic the server is not driven again.
Drive(record, random) ==
    /\ Len(tlsFed) < MaxDrives
    /\ tlsLast.result # "Panic"
    /\ \E r \in {drive(tlsServer, record, random)} :
          /\ tlsServer' = [state |-> r.state, hs_context |-> r.hs_context]
          /\ tlsLast' = [op |-> "drive", record |-> record, before |-> tlsServer.state,
                         after |-> r.state, out |-> r.out, result |-> r.result]
          /\ tlsEmitted' = IF r.result = "Some" THEN Append(tlsEmitted, r.out) ELSE tlsEmitted
    /\ tlsFed' = Append(tlsFed, record)

TlsDrive == \E record \in DriveInputs, b \in {0, 255} : Drive(record, Bytes(RANDOM_LENGTH, b))

\* ------------------------------------------------------------------------
\* Properties of the TLS handshake
\* ------------------------------------------------------------------------
\* out is one handshake record whose length field covers the rest of out and
\* whose message is a ServerHello.
IsServerHelloRecord(rec) ==
    /\ Len(rec) > TLS_RECORD_HEADER
    /\ rec[1] = TLS_HANDSHAKE
    /\ rec[4] * 256 + rec[5] = Len(rec) - TLS_RECORD_HEADER
    /\ rec[6] = SERVER_HELLO

\* C14: from AwaitClientHello a record with a decodable ClientHello leads to
\* SentServerHello and returns one ServerHello record; the next record leads
\* to Established and returns nothing; a record that does not decode leads
\* to Failed; Established is entered only from SentServerHello; Failed and
\* Established are never left.
C14_Handshake ==
    tlsLast.op = "drive" =>
        /\ (tlsLast.before = "AwaitClientHello" /\ tlsLast.record \in DecodableHellos)
              => /\ tlsLast.after = "SentServerHello"
                 /\ tlsLast.result = "Some"
                 /\ IsServerHelloRecord(tlsLast.out)
        /\ tlsLast.before = "SentServerHello"
              => (tlsLast.after = "Established" /\ tlsLast.result = "None")
        /\ (tlsLast.before = "AwaitClientHello" /\ tlsLast.record \in UndecodableRecords)
              => tlsLast.after = "Failed"
        /\ tlsLast.after = "Established"
              => tlsLast.before \in {"SentServerHello", "Established"}
        /\ tlsLast.before \in {"Failed", "Established"} => tlsLast.after = tlsLast.before

\* ========================================================================
\* TLS 1.3 record layer (tls13.rs, Tls13State)
\* ========================================================================
\* Bound of the record model: encrypt and decrypt calls on one Tls13State.
MaxRecords == 3

APPLICATION_DATA == 23
TAG_LENGTH == 16
MIN_CIPHERTEXT == 21
IV_LENGTH == 12
KEY_LENGTH == 16
SEQ_BYTES == 8
SEQ_OFFSET == 4

\* a ^ b on bytes.
XorByte(a, b) ==
    LET bit(x, k) == (x \div (2 ^ k)) % 2
        xor(k) == IF bit(a, k) = bit(b, k) THEN 0 ELSE 2 ^ k
    IN  xor(0) + xor(1) + xor(2) + xor(3) + xor(4) + xor(5) + xor(6) + xor(7)

\* ((seq >> ((7 - i) * 8)) & 0xff); the sequence numbers of the model are
\* below 2^31, so the bytes above the low four are zero.
SeqByte(seq, i) ==
    IF (SEQ_BYTES - 1 - i) * 8 > 30 THEN 0
    ELSE (seq \div (2 ^ ((SEQ_BYTES - 1 - i) * 8))) % 256

\* build_nonce without the sequence number.
build_nonce_is_iv(iv, seq) == iv

\* build_nonce: the IV with the big-endian sequence number xor-ed into its
\* last eight bytes.
build_nonce(iv, seq) ==
    [j \in 1..IV_LENGTH |->
        IF j > SEQ_OFFSET THEN XorByte(iv[j], SeqByte(seq, j - 1 - SEQ_OFFSET)) ELSE iv[j]]

\* aes_gcm::seal, symbolically: the ciphertext and tag of plaintext under
\* key, nonce and additional data.
seal(key, nonce, aad, plaintext) ==
    [key |-> key, nonce |-> nonce, aad |-> aad, plaintext |-> plaintext]

\* aes_gcm::open on what seal made: the tag matches exactly under the same
\* key, nonce and additional data.
open(key, nonce, aad, sealed) ==
    sealed.key = key /\ sealed.nonce = nonce /\ sealed.aad = aad

\* A record on the wire: content type, declared length, the bytes it has in
\* all (size), and the sealed payload.
Record(content_type, len, size, sealed) ==
    [content_type |-> content_type, len |-> len, size |-> size, sealed |-> sealed]

\* Tls13State::new, and the state process_client_hello returns (keys and IVs
\* derived from a random secret; here fixed distinct values).
NewTls13State ==
    [client_write_key |-> Bytes(KEY_LENGTH, 0), server_write_key |-> Bytes(KEY_LENGTH, 0),
     client_iv |-> Bytes(IV_LENGTH, 0), server_iv |-> Bytes(IV_LENGTH, 0),
     server_seq |-> 0, client_seq |-> 0]

HandshakeTls13State ==
    [client_write_key |-> Bytes(KEY_LENGTH, 17), server_write_key |-> Bytes(KEY_LENGTH, 34),
     client_iv |-> Bytes(IV_LENGTH, 255), server_iv |-> Bytes(IV_LENGTH, 1),
     server_seq |-> 0, client_seq |-> 0]

\* encrypt_application_data: [state, record, nonce].
encrypt_application_data(state, plaintext) ==
    LET nonce == build_nonce(state.server_iv, state.server_seq)
        aad == <<APPLICATION_DATA, 3, 3, 0, 0>>
        sealed == seal(state.server_write_key, nonce, aad, plaintext)
    IN  [state |-> [state EXCEPT !.server_seq = @ + 1],
         record |-> Record(APPLICATION_DATA, Len(plaintext) + TAG_LENGTH,
                           TLS_RECORD_HEADER + Len(plaintext) + TAG_LENGTH, sealed),
         nonce |-> nonce]

\* decrypt_application_data: [state, ok, plaintext, nonce].
decrypt_application_data(state, ciphertext) ==
    LET none == [state |-> state, ok |-> FALSE, plaintext |-> <<>>, nonce |-> <<>>]
        len == ciphertext.len
        nonce == build_nonce(state.client_iv, state.client_seq)
        aad == <<APPLICATION_DATA, 3, 3, (len - TAG_LENGTH) \div 256, (len - TAG_LENGTH) % 256>>
    IN  IF ciphertext.size < MIN_CIPHERTEXT THEN none
        ELSE IF ciphertext.content_type # APPLICATION_DATA THEN none
        ELSE IF ciphertext.size # TLS_RECORD_HEADER + len THEN none
        ELSE IF ~open(state.client_write_key, nonce, aad, ciphertext.sealed) THEN none
        ELSE [state |-> [state EXCEPT !.client_seq = @ + 1], ok |-> TRUE,
              plaintext |-> ciphertext.sealed.plaintext, nonce |-> nonce]

\* The plaintexts of the model.
Plaintexts == {<<>>, <<104, 105>>}

\* What the peer sends: a record it sealed for its seq-th record under key
\* and IV, with the additional data of a ciphertext of aad_len bytes, framed
\* with the given content type and with `extra` bytes more or fewer than
\* declared.
PeerRecord(key, iv, seq, plaintext, aad_len, content_type, extra) ==
    Record(content_type, Len(plaintext) + TAG_LENGTH,
           TLS_RECORD_HEADER + Len(plaintext) + TAG_LENGTH + extra,
           seal(key, build_nonce(iv, seq),
                <<APPLICATION_DATA, 3, 3, aad_len \div 256, aad_len % 256>>, plaintext))

VARIABLES
    tlsState,      \* the Tls13State
    recLast,       \* the last call: [op, ok, record, server_before, client_before]
    sealNonces,    \* history: the nonces encrypt sealed with, in order
    openNonces     \* history: the nonces of the successful decrypts, in order

recVars == <<tlsState, recLast, sealNonces, openNonces>>

NoRecord ==
    [op |-> "none", ok |-> TRUE, record |-> <<>>, server_before |-> 0, client_before |-> 0]

InitRec ==
    /\ tlsState \in {NewTls13State, HandshakeTls13State}
    /\ recLast = NoRecord
    /\ sealNonces = <<>>
    /\ openNonces = <<>>

\* encrypt_application_data(&mut state, plaintext).
Encrypt(plaintext) ==
    /\ tlsState.server_seq < MaxRecords
    /\ \E r \in {encrypt_application_data(tlsState, plaintext)} :
          /\ tlsState' = r.state
          /\ sealNonces' = Append(sealNonces, r.nonce)
          /\ recLast' = [op |-> "encrypt", ok |-> TRUE, record |-> r.record,
                         server_before |-> tlsState.server_seq,
                         client_before |-> tlsState.client_seq]
    /\ UNCHANGED openNonces

\* decrypt_application_data(&mut state, ciphertext).
Decrypt(ciphertext) ==
    /\ tlsState.client_seq < MaxRecords
    /\ \E r \in {decrypt_application_data(tlsState, ciphertext)} :
          /\ tlsState' = r.state
          /\ openNonces' = IF r.ok THEN Append(openNonces, r.nonce) ELSE openNonces
          /\ recLast' = [op |-> "decrypt", ok |-> r.ok, record |-> ciphertext,
                         server_before |-> tlsState.server_seq,
                         client_before |-> tlsState.client_seq]
    /\ UNCHANGED sealNonces

RecEncrypt == \E plaintext \in Plaintexts : Encrypt(plaintext)

\* The peer's records: right or wrong key, any sequence number, right or
\* wrong additional data, content type and framing.
RecDecrypt ==
    \E key \in {tlsState.client_write_key, Bytes(KEY_LENGTH, 99)},
       seq \in 0..MaxRecords, plaintext \in Plaintexts,
       variant \in {"good", "aad", "type", "long", "short"} :
        Decrypt(PeerRecord(key, tlsState.client_iv, seq, plaintext,
                           IF variant = "aad" THEN 0 ELSE Len(plaintext),
                           IF variant = "type" THEN TLS_HANDSHAKE ELSE APPLICATION_DATA,
                           CASE variant = "long" -> 1 [] variant = "short" -> -1 [] OTHER -> 0))

\* ------------------------------------------------------------------------
\* Properties of the TLS record layer
\* ------------------------------------------------------------------------
Distinct(s) == \A i, j \in DOMAIN s : i # j => s[i] # s[j]

\* C15: encrypt seals with the nonce of the current server sequence number
\* and then raises it by one; a successful decrypt raises the client sequence
\* number by one and a failed one leaves it; no nonce is used twice in one
\* direction.
C15_SequenceNumbers ==
    /\ recLast.op = "encrypt" =>
          /\ tlsState.server_seq = recLast.server_before + 1
          /\ tlsState.client_seq = recLast.client_before
          /\ sealNonces[Len(sealNonces)] = build_nonce(tlsState.server_iv, recLast.server_before)
          /\ recLast.record.sealed.nonce = sealNonces[Len(sealNonces)]
    /\ recLast.op = "decrypt" =>
          /\ tlsState.client_seq = recLast.client_before + (IF recLast.ok THEN 1 ELSE 0)
          /\ tlsState.server_seq = recLast.server_before
    /\ Distinct(sealNonces)
    /\ Distinct(openNonces)
    /\ Len(sealNonces) = tlsState.server_seq
    /\ Len(openNonces) = tlsState.client_seq

\* Two records were sealed, two were opened, and the last decrypt failed.
C15_Witness ==
    /\ Len(sealNonces) >= 2
    /\ Len(openNonces) >= 2
    /\ recLast.op = "decrypt" /\ ~recLast.ok

\* ========================================================================
\* QUIC 0-RTT buffer (http3.rs, ConnectionCtx)
\* ========================================================================
\* Bounds of the 0-RTT model: packets offered and flush calls on one
\* ConnectionCtx.
MaxPackets == 4
MaxFlushes == 2

LONG_HEADER == 128
TYPE_SHIFT == 16
TYPE_ZERO_RTT == 1

\* The packets of the model, by first byte: two 0-RTT packets (0xd0), a long
\* header of type 1 without the fixed bit (0x90), an Initial (0xc0), a
\* Handshake packet (0xe0), a short header with bit 4 set (0x50), and the
\* empty datagram.
Packets == {<<208, 1>>, <<208, 2>>, <<144, 3>>, <<192, 4>>, <<224, 5>>, <<80, 6>>, <<>>}

\* is_zero_rtt with the test of the type bits left out.
is_long_header(buf) ==
    IF Len(buf) < 1 THEN FALSE ELSE (buf[1] \div LONG_HEADER) % 2 = 1

\* is_zero_rtt: bit 7 set and bits 5..4 equal to 1.
is_zero_rtt(buf) ==
    IF Len(buf) < 1 THEN FALSE
    ELSE IF (buf[1] \div LONG_HEADER) % 2 = 0 THEN FALSE
    ELSE (buf[1] \div TYPE_SHIFT) % 4 = TYPE_ZERO_RTT

VARIABLES
    zero_rtt,      \* ConnectionCtx.zero_rtt.packets
    q0Last,        \* the last call: [op, packet, ret, flushed, offered]
    q0Offered,     \* history: the packets offered since the last flush, in order
    q0Packets,     \* history: the number of packets offered
    q0Flushes      \* history: the number of flush_0rtt calls

zrttVars == <<zero_rtt, q0Last, q0Offered, q0Packets, q0Flushes>>

NoZeroRttCall ==
    [op |-> "none", packet |-> <<>>, ret |-> FALSE, flushed |-> <<>>, offered |-> <<>>]

\* ConnectionCtx::new.
InitZeroRtt ==
    /\ zero_rtt = <<>>
    /\ q0Last = NoZeroRttCall
    /\ q0Offered = <<>>
    /\ q0Packets = 0
    /\ q0Flushes = 0

\* ctx.maybe_buffer_0rtt(packet): ZeroRttBuffer::push when is_zero_rtt.
MaybeBuffer0rtt(packet) ==
    /\ q0Packets < MaxPackets
    /\ zero_rtt' = IF is_zero_rtt(packet) THEN Append(zero_rtt, packet) ELSE zero_rtt
    /\ q0Last' = [op |-> "maybe_buffer_0rtt", packet |-> packet, ret |-> is_zero_rtt(packet),
                  flushed |-> <<>>, offered |-> <<>>]
    /\ q0Offered' = Append(q0Offered, packet)
    /\ q0Packets' = q0Packets + 1
    /\ UNCHANGED q0Flushes

\* ctx.flush_0rtt(): ZeroRttBuffer::drain.
Flush0rtt ==
    /\ q0Flushes < MaxFlushes
    /\ zero_rtt' = <<>>
    /\ q0Last' = [op |-> "flush_0rtt", packet |-> <<>>, ret |-> FALSE, flushed |-> zero_rtt,
                  offered |-> q0Offered]
    /\ q0Offered' = <<>>
    /\ q0Flushes' = q0Flushes + 1
    /\ UNCHANGED q0Packets

CtxMaybeBuffer0rtt == \E packet \in Packets : MaybeBuffer0rtt(packet)

\* ------------------------------------------------------------------------
\* Properties of the 0-RTT buffer
\* ------------------------------------------------------------------------
\* C16: the buffer is drained once, by the flush at handshake confirmation
\* (the first flush_0rtt): from then on no packet is buffered, and a later
\* flush returns no packet.
C16_DrainedOnce ==
    q0Flushes >= 1 =>
        /\ zero_rtt = <<>>
        /\ q0Last.op = "maybe_buffer_0rtt" => ~q0Last.ret
        /\ (q0Last.op = "flush_0rtt" /\ q0Flushes >= 2) => q0Last.flushed = <<>>

\* A packet with a long header of type 1.
IsLongType1(p) == p # <<>> /\ p[1] >= 128 /\ (p[1] % 64) \div 16 = 1

\* C17: flush_0rtt returns the long-header type-1 packets offered since the
\* previous flush, each once and in the order they arrived, and leaves the
\* buffer empty; the other packets offered are not among them.
C17_FlushInOrder ==
    q0Last.op = "flush_0rtt" =>
        /\ q0Last.flushed = SelectSeq(q0Last.offered, IsLongType1)
        /\ zero_rtt = <<>>

\* The second flush returned two packets, in between which a packet was
\* offered that is not 0-RTT.
C17_Witness ==
    /\ q0Last.op = "flush_0rtt" /\ q0Flushes = 2
    /\ Len(q0Last.flushed) = 2
    /\ Len(q0Last.offered) = 3
    /\ ~IsLongType1(q0Last.offered[2])

\* ========================================================================
\* Rate limiter (ratelimit.rs) and its use by run_server (lib.rs)
\* ========================================================================
\* Bounds of the rate-limiter model: the clock, in ticks, the direct allow
\* calls, and the connections the engine registers.
MaxTicks == 2
MaxAllows == 4
MaxPeerConns == 2

\* Instant::now() advances in ticks of half a second; token counts are kept
\* in units of 1/TICKS_PER_SEC token, which f64 represents exactly.
TICKS_PER_SEC == 2
DEFAULT_CAP == 60
DEFAULT_RATE == 1

\* The keys allow is called with directly, and the addresses peers connect
\* from.
Ips == {"10.0.0.1", "10.0.0.2"}

\* What configure is called with.
Capacities == {0, 1, 61}
Rates == {0, 1, 3}

\* The State the Once initialises.
NewRateState == [cap |-> DEFAULT_CAP, rate |-> DEFAULT_RATE, map |-> <<>>]

\* configure(capacity, refill_per_sec).
configure(st, capacity, refill_per_sec) ==
    [st EXCEPT !.cap = capacity, !.rate = refill_per_sec]

\* allow(ip) at time t: [st, ret, refilled]; refilled is the token count
\* after the refill and before the test.
allow(st, ip, t) ==
    LET b == IF ip \in DOMAIN st.map THEN st.map[ip]
             ELSE [tokens |-> st.cap * TICKS_PER_SEC, last |-> t]
        elapsed == t - b.last
        refilled == Min(b.tokens + elapsed * st.rate, st.cap * TICKS_PER_SEC)
        ret == refilled >= TICKS_PER_SEC
        tokens == IF ret THEN refilled - TICKS_PER_SEC ELSE refilled
    IN  [st |-> [st EXCEPT !.map = Put(st.map, ip, [tokens |-> tokens, last |-> t])],
         ret |-> ret, refilled |-> refilled]

VARIABLES
    rlState,       \* ratelimit STATE: [cap, rate, map: ip -> Bucket]
    rlNow,         \* Instant::now(), in ticks
    rlLast,        \* the last call: [op, ip, ret, before, refilled, own]
    peerConns,     \* the engine's connections: [addr, peer], peer the Conn.peer field
    perPeer,       \* history: a limiter of its own, keyed by the address of the peer
    rlAllows       \* history: the number of direct allow calls

rlVars == <<rlState, rlNow, rlLast, peerConns, perPeer, rlAllows>>

NoAllow ==
    [op |-> "none", ip |-> "", ret |-> TRUE, before |-> 0, refilled |-> 0, own |-> TRUE]

InitRateLimit ==
    /\ rlState = NewRateState
    /\ rlNow = 0
    /\ rlLast = NoAllow
    /\ peerConns = <<>>
    /\ perPeer = NewRateState
    /\ rlAllows = 0

\* Time passes.
RlTick ==
    /\ rlNow < MaxTicks
    /\ rlNow' = rlNow + 1
    /\ UNCHANGED <<rlState, rlLast, peerConns, perPeer, rlAllows>>

\* ratelimit::configure(capacity, refill_per_sec).
Configure(capacity, refill_per_sec) ==
    /\ rlState' = configure(rlState, capacity, refill_per_sec)
    /\ rlLast' = [NoAllow EXCEPT !.op = "configure"]
    /\ perPeer' = configure(perPeer, capacity, refill_per_sec)
    /\ UNCHANGED <<rlNow, peerConns, rlAllows>>

\* ratelimit::allow(ip).
Allow(ip) ==
    /\ rlAllows < MaxAllows
    /\ rlAllows' = rlAllows + 1
    /\ \E r \in {allow(rlState, ip, rlNow)} :
          /\ rlState' = r.st
          /\ rlLast' = [op |-> "allow", ip |-> ip, ret |-> r.ret,
                        before |-> IF ip \in DOMAIN rlState.map THEN rlState.map[ip].tokens
                                   ELSE rlState.cap * TICKS_PER_SEC,
                        refilled |-> r.refilled, own |-> r.ret]
    /\ UNCHANGED <<rlNow, peerConns, perPeer>>

\* run_server registers a connection accepted from address addr: the Conn is
\* made with peer "unknown".
RegisterPeer(addr) ==
    /\ Len(peerConns) < MaxPeerConns
    /\ peerConns' = Append(peerConns, [addr |-> addr, peer |-> "unknown"])
    /\ UNCHANGED <<rlState, rlNow, rlLast, perPeer, rlAllows>>

\* The readable handler of connection c after a read: ratelimit::allow on
\* conn.peer; false answers 429 and deregisters.  The limiter keyed by the
\* peer's address takes the same read.
PeerRead(c) ==
    /\ \E r \in {allow(rlState, peerConns[c].peer, rlNow)},
          o \in {allow(perPeer, peerConns[c].addr, rlNow)} :
          /\ rlState' = r.st
          /\ perPeer' = o.st
          /\ rlLast' = [op |-> "read", ip |-> peerConns[c].addr, ret |-> r.ret,
                        before |-> 0, refilled |-> r.refilled, own |-> o.ret]
    /\ UNCHANGED <<rlNow, peerConns, rlAllows>>

RlConfigure == \E capacity \in Capacities, refill_per_sec \in Rates : Configure(capacity, refill_per_sec)

RlAllow == \E ip \in Ips : Allow(ip)

EngineRegisterPeer == \E addr \in Ips : RegisterPeer(addr)

EnginePeerRead == \E c \in DOMAIN peerConns : PeerRead(c)

\* ------------------------------------------------------------------------
\* Properties of the rate limiter
\* ------------------------------------------------------------------------
\* C18: rate limiting is per peer address: a read is answered 429 only when
\* the reads from that peer's own address have used up its tokens, that is,
\* when a limiter keyed by the address refuses it too.
C18_PerPeer ==
    (rlLast.op = "read" /\ ~rlLast.ret) => ~rlLast.own

\* C19: every bucket holds between 0 and the current capacity; allow returns
\* true exactly when the count refilled to min(capacity, tokens + elapsed *
\* rate) is at least one token, and then takes one token.
C19_TokensWithinCapacity ==
    /\ \A ip \in DOMAIN rlState.map :
          /\ rlState.map[ip].tokens >= 0
          /\ rlState.map[ip].tokens <= rlState.cap * TICKS_PER_SEC
    /\ rlLast.op = "allow" =>
          /\ rlLast.ret <=> rlLast.refilled >= TICKS_PER_SEC
          /\ rlState.map[rlLast.ip].tokens
                = rlLast.refilled - (IF rlLast.ret THEN TICKS_PER_SEC ELSE 0)
          /\ rlLast.refilled <= rlState.cap * TICKS_PER_SEC

\* ========================================================================
\* Request checks of handle_request: WAF (waf.rs, ebpf.rs), method, RBAC
\* (rbac.rs)
\* ========================================================================
\* Bound of the model: the PathBlock filters registered beside the built-in
\* one.
MaxFilters == 1

StrHead == <<72, 69, 65, 68>>
StrPost == <<80, 79, 83, 84>>
StrUserAgent == <<85, 115, 101, 114, 45, 65, 103, 101, 110, 116>>
StrReferer == <<114, 101, 102, 101, 114, 101, 114>>
StrAuthorization == <<65, 117, 116, 104, 111, 114, 105, 122, 97, 116, 105, 111, 110>>
StrBearer == <<66, 101, 97, 114, 101, 114, 32>>
StrRoles == <<34, 114, 111, 108, 101, 115, 34>>
StrAdmin == <<97, 100, 109, 105, 110>>
StrUser == <<117, 115, 101, 114>>

DOT == 46
COMMA == 44
QUOTE == 34
LBRACKET == 91
RBRACKET == 93
PAD == 61
INVALID == 255
ASCII_END == 128

\* COMMON_ATTACK_PATTERNS.
COMMON_ATTACK_PATTERNS ==
    << <<46, 46, 47>>, <<37, 50, 101, 37, 50, 101, 47>>, <<117, 110, 105, 111, 110, 32, 115, 101, 108, 101, 99, 116>>, <<60, 115, 99, 114, 105, 112, 116>>, <<60, 115, 99, 114, 105, 112, 116>>, <<32, 111, 114, 32, 49, 61, 49>>, <<101, 116, 99, 47, 112, 97, 115, 115, 119, 100>> >>

\* str::contains.
Contains(s, pat) ==
    \E i \in 1..(Len(s) - Len(pat) + 1) : SubSeq(s, i, i + Len(pat) - 1) = pat

\* str::find: the 0-based index of the first occurrence, or None.
Find(s, pat) ==
    LET hits == {i \in 1..(Len(s) - Len(pat) + 1) : SubSeq(s, i, i + Len(pat) - 1) = pat}
    IN  IF hits = {} THEN None ELSE (CHOOSE i \in hits : \A j \in hits : i <= j) - 1

\* to_ascii_lowercase.
to_ascii_lowercase(s) == [i \in 1..Len(s) |-> Lower(s[i])]

\* BuiltinWaf::check: the lowered path followed by the lowered values of the
\* user-agent and referer headers holds none of the patterns.
RECURSIVE waf_target(_, _)
waf_target(target, headers) ==
    IF headers = <<>> THEN target
    ELSE LET h == Head(headers)
         IN  IF EqIgnoreCase(h.name, StrUserAgent) \/ EqIgnoreCase(h.name, StrReferer)
             THEN waf_target(target \o to_ascii_lowercase(h.value), Tail(headers))
             ELSE waf_target(target, Tail(headers))

builtin_check(path, headers) ==
    \E target \in {waf_target(to_ascii_lowercase(path), headers)} :
        \A i \in DOMAIN COMMON_ATTACK_PATTERNS : ~Contains(target, COMMON_ATTACK_PATTERNS[i])

\* PathBlock::check.
path_block_check(prefix, path) == ~IsPrefix(prefix, path)

\* RequestFilter::check of a registered filter.
check(filt, method, path, headers) ==
    IF filt.kind = "builtin" THEN builtin_check(path, headers)
    ELSE path_block_check(filt.prefix, path)

BuiltinWaf == [kind |-> "builtin", prefix |-> <<>>]

PathBlock(prefix) == [kind |-> "path", prefix |-> prefix]

\* ensure_builtin: the first call registers the built-in filter.
ensure_builtin(waf) ==
    IF waf.once THEN waf
    ELSE [once |-> TRUE, filters |-> Append(waf.filters, BuiltinWaf)]

\* waf::evaluate on the filters registered (ensure_builtin has run).
evaluate(filters, method, path, headers) ==
    \A i \in DOMAIN filters : check(filters[i], method, path, headers)

\* rbac: BASE64_LOOKUP.
BASE64_LOOKUP(b) ==
    IF b >= 65 /\ b <= 90 THEN b - 65
    ELSE IF b >= 97 /\ b <= 122 THEN b - 97 + 26
    ELSE IF b >= 48 /\ b <= 57 THEN b - 48 + 52
    ELSE IF b = 43 THEN 62
    ELSE IF b = 47 THEN 63
    ELSE INVALID

\* decode_base64_simple: [out, chunk, stop] after the bytes of inp.
RECURSIVE decode_chunks(_, _, _)
decode_chunks(inp, chunk, outb) ==
    IF inp = <<>> \/ Head(inp) = PAD THEN [out |-> outb, chunk |-> chunk]
    ELSE LET val == BASE64_LOOKUP(Head(inp))
         IN  IF val = INVALID THEN decode_chunks(Tail(inp), chunk, outb)
             ELSE IF Len(chunk) = 3
             THEN decode_chunks(Tail(inp), <<>>,
                      outb \o << ((chunk[1] * 4) % 256) + (chunk[2] \div 16),
                                 ((chunk[2] * 16) % 256) + (chunk[3] \div 4),
                                 ((chunk[3] * 64) % 256) + val >>)
             ELSE decode_chunks(Tail(inp), Append(chunk, val), outb)

decode_base64_simple(inp) ==
    LET d == decode_chunks(inp, <<>>, <<>>)
    IN  IF Len(d.chunk) = 3
        THEN d.out \o << ((d.chunk[1] * 4) % 256) + (d.chunk[2] \div 16),
                         ((d.chunk[2] * 16) % 256) + (d.chunk[3] \div 4) >>
        ELSE IF Len(d.chunk) = 2
        THEN d.out \o << ((d.chunk[1] * 4) % 256) + (d.chunk[2] \div 16) >>
        ELSE d.out

\* base64_url_decode: '-' and '_' replaced, padded to a multiple of four.
base64_url_decode(s) ==
    LET b == [i \in 1..Len(s) |-> IF s[i] = 45 THEN 43 ELSE IF s[i] = 95 THEN 47 ELSE s[i]]
        padded == b \o [i \in 1..((4 - (Len(b) % 4)) % 4) |-> PAD]
    IN  decode_base64_simple(padded)

\* trim_matches('"').
RECURSIVE trim_quotes(_)
trim_quotes(s) ==
    IF s # <<>> /\ Head(s) = QUOTE THEN trim_quotes(Tail(s))
    ELSE IF s # <<>> /\ s[Len(s)] = QUOTE THEN trim_quotes(SubSeq(s, 1, Len(s) - 1))
    ELSE s

\* extract_roles(token).  str::from_utf8 is taken to accept exactly the
\* payloads made of ASCII bytes.
extract_roles(token) ==
    LET parts == SplitOn(token, {DOT}, <<>>)
    IN  IF Len(parts) # 3 THEN <<>>
        ELSE LET s == base64_url_decode(parts[2])
                 idx == Find(s, StrRoles)
             IN  IF (\E i \in DOMAIN s : s[i] >= ASCII_END) \/ idx = None THEN <<>>
                 ELSE LET from_idx == SubSeq(s, idx + 1, Len(s))
                          start == Find(from_idx, <<LBRACKET>>)
                      IN  IF start = None THEN <<>>
                          ELSE LET from_start == SubSeq(s, idx + start + 1, Len(s))
                                   end == Find(from_start, <<RBRACKET>>)
                               IN  IF end = None THEN <<>>
                                   ELSE LET list == SubSeq(s, idx + start + 2, idx + start + end)
                                            rs == SplitOn(list, {COMMA}, <<>>)
                                        IN  [i \in 1..Len(rs) |-> trim_quotes(rs[i])]

\* The policy validate matches: the first of those with the longest prefix
\* that path starts with, or None.
matched_policy(pols, path) ==
    LET hits == {i \in DOMAIN pols : IsPrefix(pols[i].prefix, path)}
    IN  IF hits = {} THEN None
        ELSE CHOOSE i \in hits :
                 \A j \in hits : \/ Len(pols[j].prefix) < Len(pols[i].prefix)
                                 \/ (Len(pols[j].prefix) = Len(pols[i].prefix) /\ i <= j)

\* An Option is a sequence of no value or of one.
\* auth_header.and_then(|h| h.strip_prefix("Bearer ")): the token, if any.
bearer_token(auth_header) ==
    IF auth_header # <<>> /\ IsPrefix(StrBearer, auth_header[1])
    THEN << SubSeq(auth_header[1], Len(StrBearer) + 1, Len(auth_header[1])) >>
    ELSE <<>>

\* rbac::validate(path, auth_header).
validate(pols, path, auth_header) ==
    LET m == matched_policy(pols, path)
    IN  IF m = None THEN TRUE
        ELSE IF bearer_token(auth_header) = <<>> THEN FALSE
        ELSE \E roles \in {extract_roles(bearer_token(auth_header)[1])} :
                 \E r \in Range(pols[m].roles) : r \in Range(roles)

\* headers.iter().find(name).map(value): the value of the first header of
\* that name, if any.
find_header(headers, name) ==
    LET hits == {i \in DOMAIN headers : EqIgnoreCase(headers[i].name, name)}
    IN  IF hits = {} THEN <<>>
        ELSE << headers[CHOOSE i \in hits : \A j \in hits : i <= j].value >>

FORBIDDEN == 403
METHOD_NOT_ALLOWED == 405

\* handle_request up to the end of its checks: the status it answers with
\* (None when the request goes on to routing) and the checks it consulted,
\* in order.
handle_request(filters, pols, method, path, headers) ==
    IF ~evaluate(filters, method, path, headers)
    THEN [status |-> FORBIDDEN, consulted |-> <<"waf">>]
    ELSE IF method # StrGet /\ method # StrHead
    THEN [status |-> METHOD_NOT_ALLOWED, consulted |-> <<"waf", "method">>]
    ELSE IF ~validate(pols, path, find_header(headers, StrAuthorization))
    THEN [status |-> FORBIDDEN, consulted |-> <<"waf", "method", "rbac">>]
    ELSE [status |-> None, consulted |-> <<"waf", "method", "rbac">>]

\* Requests: methods, paths and header lists.
PathRoot == <<47>>
PathAdmin == <<47, 97, 100, 109, 105, 110, 47, 120>>
PathAdminTraversal == <<47, 97, 100, 109, 105, 110, 47, 46, 46, 47, 120>>
PathBlocked == <<47, 116, 109, 112, 47, 120>>

RequestMethods == {StrGet, StrHead, StrPost}

RequestPaths == {PathRoot, PathAdmin, PathAdminTraversal, PathBlocked}

JwtAdmin == <<104, 46, 101, 121, 74, 121, 98, 50, 120, 108, 99, 121, 73, 54, 87, 121, 74, 104, 90, 71, 49, 112, 98, 105, 74, 100, 102, 81, 46, 115>>
JwtUser == <<104, 46, 101, 121, 74, 122, 100, 87, 73, 105, 79, 105, 74, 49, 73, 105, 119, 105, 99, 109, 57, 115, 90, 88, 77, 105, 79, 108, 115, 105, 100, 88, 78, 108, 99, 105, 73, 115, 73, 109, 82, 108, 100, 105, 74, 100, 102, 81, 46, 115>>

Header(name, value) == [name |-> name, value |-> value]

RequestHeaders ==
    { <<>>,
      << Header(StrUserAgent, <<99, 117, 114, 108>>) >>,
      << Header(StrUserAgent, <<60, 83, 67, 82, 73, 80, 84, 62>>) >>,
      << Header(StrAuthorization, StrBearer \o JwtAdmin) >>,
      << Header(StrAuthorization, StrBearer \o JwtUser) >>,
      << Header(StrAuthorization, <<66, 97, 115, 105, 99, 32, 120>>) >>,
      << Header(StrUserAgent, <<99, 117, 114, 108>>), Header(StrAuthorization, StrBearer \o JwtAdmin) >> }

\* What rbac::load and ebpf::load_rules are given.
Policy(prefix, roles) == [prefix |-> prefix, roles |-> roles]

PolicyLists ==
    { <<>>,
      << Policy(<<47, 97, 100, 109, 105, 110, 47>>, <<StrAdmin>>) >>,
      << Policy(<<47>>, <<StrUser, StrAdmin>>), Policy(<<47, 97, 100, 109, 105, 110, 47>>, <<StrAdmin>>) >> }

BlockPrefixes == { <<47, 116, 109, 112>> }

VARIABLES
    POLICIES,      \* rbac POLICIES: the policies loaded
    FILTERS,       \* waf: [once, filters], the Once of ensure_builtin and FILTERS
    hrLast         \* the last handle_request: its inputs, answer and verdicts

reqVars == <<POLICIES, FILTERS, hrLast>>

NoRequestYet ==
    [op |-> "none", method |-> <<>>, path |-> <<>>, headers |-> <<>>,
     status |-> None, consulted |-> <<>>, rbac |-> TRUE, waf |-> TRUE]

InitChecks ==
    /\ POLICIES = <<>>
    /\ FILTERS = [once |-> FALSE, filters |-> <<>>]
    /\ hrLast = NoRequestYet

\* rbac::load(policy_str).
RbacLoad(pols) ==
    /\ POLICIES' = pols
    /\ hrLast' = NoRequestYet
    /\ UNCHANGED FILTERS

\* ebpf::load_rules with one "block prefix" line: waf::register_filter.
RegisterFilter(prefix) ==
    /\ Len(SelectSeq(FILTERS.filters, LAMBDA f : f.kind = "path")) < MaxFilters
    /\ FILTERS' = [FILTERS EXCEPT !.filters = Append(@, PathBlock(prefix))]
    /\ hrLast' = NoRequestYet
    /\ UNCHANGED POLICIES

\* handle_request(method, path, headers).  rbac and waf record what
\* rbac::validate and waf::evaluate give for the request.
HandleRequest(method, path, headers) ==
    /\ \E w \in {ensure_builtin(FILTERS)} :
          /\ FILTERS' = w
          /\ \E r \in {handle_request(w.filters, POLICIES, method, path, headers)} :
                hrLast' = [op |-> "request", method |-> method, path |-> path,
                           headers |-> headers, status |-> r.status,
                           consulted |-> r.consulted,
                           rbac |-> validate(POLICIES, path,
                                             find_header(headers, StrAuthorization)),
                           waf |-> evaluate(w.filters, method, path, headers)]
    /\ UNCHANGED POLICIES

ChecksRbacLoad == \E pols \in PolicyLists : RbacLoad(pols)

ChecksRegisterFilter == \E prefix \in BlockPrefixes : RegisterFilter(prefix)

ChecksHandleRequest ==
    \E method \in RequestMethods, path \in RequestPaths, headers \in RequestHeaders :
        HandleRequest(method, path, headers)

\* ------------------------------------------------------------------------
\* Properties of the request checks
\* ------------------------------------------------------------------------
\* C20: for each request RBAC is evaluated first, then the WAF, then the
\* method check: the WAF is consulted only for requests RBAC allowed, and
\* the method check only for requests both allowed.
C20_RbacThenWafThenMethod ==
    hrLast.op = "request" =>
        /\ "waf" \in Range(hrLast.consulted) => hrLast.rbac
        /\ "method" \in Range(hrLast.consulted) => (hrLast.rbac /\ hrLast.waf)

\* ========================================================================
\* The first request of a connection: the readable handler with the answer of
\* handle_request (lib.rs run_server, handle_request, sanitize_path)
\* ========================================================================
OK == 200
NOT_FOUND == 404
QUERY_MARK == 63
FRAGMENT_MARK == 35
SLASH == 47

StrMetrics == <<47, 109, 101, 116, 114, 105, 99, 115>>
StrIndexHtml == <<105, 110, 100, 101, 120, 46, 104, 116, 109, 108>>
StrInvalid == <<47, 105, 110, 118, 97, 108, 105, 100>>
StrDotDot == <<46, 46>>

\* The files under cfg.root_dir, by their path below it.
DocFiles == { StrIndexHtml }

\* trim_start_matches('/').
RECURSIVE trim_slashes(_)
trim_slashes(s) == IF s # <<>> /\ Head(s) = SLASH THEN trim_slashes(Tail(s)) ELSE s

\* sanitize_path(root_dir, uri_path): the path below root_dir, or "/invalid".
\* The root holds no symbolic link, so canonicalize keeps the path inside.
sanitize_path(uri_path) ==
    LET cut == trim_slashes(SplitOn(uri_path, {QUERY_MARK, FRAGMENT_MARK}, <<>>)[1])
        p == IF cut = <<>> THEN StrIndexHtml ELSE cut
    IN  IF Contains(p, StrDotDot) THEN StrInvalid ELSE p

\* handle_request after its checks: the metrics endpoint, then the file.  The
\* requests of the model carry no If-None-Match and no Range header.
route(path) ==
    IF path = StrMetrics THEN OK
    ELSE IF sanitize_path(path) \in DocFiles THEN OK
    ELSE NOT_FOUND

\* The status handle_request answers req with, no eBPF rule and no RBAC
\* policy being loaded.
answer(req) ==
    LET headers == [i \in DOMAIN req.headers |->
                       Header(req.headers[i][1], req.headers[i][2])]
        r == handle_request(<<BuiltinWaf>>, <<>>, req.method, req.path, headers)
    IN  IF r.status # None THEN r.status ELSE route(req.path)

\* "GET /../etc/passwd HTTP/1.0\r\n\r\n", the same with a Host header,
\* "GET /a..b HTTP/1.0\r\nHost: x\r\n\r\n", "GET / HTTP/1.0\r\nHost: x\r\n\r\n"
ReqTraversal == <<71, 69, 84, 32, 47, 46, 46, 47, 101, 116, 99, 47, 112, 97, 115, 115, 119, 100, 32, 72, 84, 84, 80, 47, 49, 46, 48, 13, 10, 13, 10>>

ReqTraversalHost == <<71, 69, 84, 32, 47, 46, 46, 47, 101, 116, 99, 47, 112, 97, 115, 115, 119, 100, 32, 72, 84, 84, 80, 47, 49, 46, 48, 13, 10, 72, 111, 115, 116, 58, 32, 120, 13, 10, 13, 10>>

ReqDots == <<71, 69, 84, 32, 47, 97, 46, 46, 98, 32, 72, 84, 84, 80, 47, 49, 46, 48, 13, 10, 72, 111, 115, 116, 58, 32, 120, 13, 10, 13, 10>>

ReqIndex == <<71, 69, 84, 32, 47, 32, 72, 84, 84, 80, 47, 49, 46, 48, 13, 10, 72, 111, 115, 116, 58, 32, 120, 13, 10, 13, 10>>

FirstRequests == {ReqTraversal, ReqTraversalHost, ReqDots, ReqIndex}

\* The sizes of the pieces a client writes its request in.
WriteSizes == {1, 16, 64}

VARIABLES
    fqReq,         \* the request the client sends first; empty before it connects
    fqSent,        \* how many of its bytes the client has written
    fqWire,        \* the bytes written that the server has not read
    fqConn,        \* the Conn: [buf, parser, last_active]
    fqOpen,        \* the server still holds the connection's socket
    fqOut          \* history: the statuses the server answered with

fqVars == <<fqReq, fqSent, fqWire, fqConn, fqOpen, fqOut>>

InitFirst ==
    /\ fqReq = <<>>
    /\ fqSent = 0
    /\ fqWire = <<>>
    /\ fqConn = [buf |-> <<>>, parser |-> NewParser, last_active |-> 0]
    /\ fqOpen = TRUE
    /\ fqOut = <<>>

\* A client connects, req in hand; run_server registers the connection.
FirstConnect(req) ==
    /\ fqReq = <<>>
    /\ fqReq' = req
    /\ UNCHANGED <<fqSent, fqWire, fqConn, fqOpen, fqOut>>

\* The client writes the next n bytes of its request.
FirstWrite(n) ==
    /\ fqSent < Len(fqReq)
    /\ fqWire' = fqWire \o SubSeq(fqReq, fqSent + 1, Min(fqSent + n, Len(fqReq)))
    /\ fqSent' = Min(fqSent + n, Len(fqReq))
    /\ UNCHANGED <<fqReq, fqConn, fqOpen, fqOut>>

\* The readable handler on the connection: each request the parse loop hands
\* to handle_request (its bytes are in disp) is answered with answer's status;
\* a connection that is not put back into the map is dropped, which closes
\* its socket.
FirstReadable ==
    /\ fqOpen /\ fqWire # <<>>
    /\ \E h \in {readable(fqConn, fqWire, "open", 0, TRUE, TRUE)} :
          /\ fqConn' = h.conn
          /\ fqOpen' = h.keep
          /\ fqOut' = fqOut \o
                [i \in DOMAIN h.outs |->
                    IF h.outs[i].status = "response"
                    THEN answer(advance(NewParser, h.disp[i]).req)
                    ELSE h.outs[i].status]
    /\ fqWire' = after_read(fqWire, "open")
    /\ UNCHANGED <<fqReq, fqSent>>

FirstClientConnect == \E req \in FirstRequests : FirstConnect(req)

FirstClientWrite == \E n \in WriteSizes : FirstWrite(n)

\* ------------------------------------------------------------------------
\* Properties of the first request
\* ------------------------------------------------------------------------
\* C21: `GET /../etc/passwd HTTP/1.0` followed by an empty line, sent as the
\* first bytes of a connection, is answered with status 404 and the
\* connection is then closed: once the server has read the whole request it
\* has answered 404, and nothing else, and no longer holds the socket.
C21_TraversalNotFound ==
    (fqReq = ReqTraversal /\ fqSent = Len(fqReq) /\ fqWire = <<>>)
        => (fqOut = <<NOT_FOUND>> /\ ~fqOpen)

\* ========================================================================
\* DNS cache: the skiplist of dns.rs (DnsCache) under calls made one after
\* the other
\* ========================================================================
\* Bounds of the DNS model: the heap allocated beside the sentinel and the
\* clock, in seconds.
MaxDnsNodes == 2
MaxDnsTime == 2

MAX_LEVEL == 12
TTL_DEFAULT == 300
NULL == 0
HEAD == 1

\* random_level reads the low bits of the FNV-1a hash only; these are the low
\* twelve bits of the offset basis and of the prime, and their modulus.
HASH_LOW_MODULUS == 4096
FNV_OFFSET_LOW == 805
FNV_PRIME_LOW == 435

\* Host names "a", "b", "c" and the addresses they resolve to.
DnsKeys == { <<97>>, <<98>>, <<99>> }

DnsValues == { "192.0.2.1", "192.0.2.2" }

DnsTtls == { 0, 1 }

\* str < str: the order of the bytes.
StrLess(a, b) ==
    \E i \in 1..(Min(Len(a), Len(b)) + 1) :
        /\ SubSeq(a, 1, i - 1) = SubSeq(b, 1, i - 1)
        /\ IF i > Len(a) THEN i <= Len(b)
           ELSE i <= Len(b) /\ a[i] < b[i]

\* The low twelve bits of the hash of random_level after the bytes of key.
RECURSIVE fnv_low(_, _)
fnv_low(key, hash) ==
    IF key = <<>> THEN hash
    ELSE fnv_low(Tail(key),
             (((hash \div 256) * 256 + XorByte(hash % 256, Head(key))) * FNV_PRIME_LOW)
                 % HASH_LOW_MODULUS)

RECURSIVE trailing_level(_, _)
trailing_level(lvl, hash) ==
    IF lvl < MAX_LEVEL /\ hash % 2 = 0 THEN trailing_level(lvl + 1, hash \div 2) ELSE lvl

\* random_level(key).
random_level(key) == trailing_level(1, fnv_low(key, FNV_OFFSET_LOW))

\* Node::new at time t; the forward pointers are null.
NewNode(key, value, ttl, t) ==
    [key |-> key, value |-> value, expires |-> t + ttl,
     forwards |-> [i \in 1..MAX_LEVEL |-> NULL], freed |-> FALSE]

\* The search loop of insert and lookup from level i down: x moves along the
\* forward pointers of level i while the next key is below key.  update[i] is
\* x when level i is left.  A node that was freed is read as it was left; ub
\* records that freed memory was read.
RECURSIVE search(_, _, _, _, _, _)
search(heap, key, i, x, update, ub) ==
    IF i = 0 THEN [x |-> x, update |-> update, ub |-> ub]
    ELSE LET nxt == heap[x].forwards[i]
         IN  IF nxt # NULL /\ StrLess(heap[nxt].key, key)
             THEN search(heap, key, i, nxt, update, ub \/ heap[nxt].freed)
             ELSE search(heap, key, i - 1, x, [update EXCEPT ![i] = x],
                         ub \/ (nxt # NULL /\ heap[nxt].freed))

\* The stores of the insert loop for levels i..lvl of the new node n.
RECURSIVE link(_, _, _, _, _)
link(heap, n, update, i, lvl) ==
    IF i > lvl THEN heap
    ELSE LET prev == update[i]
             n1 == [heap EXCEPT ![n].forwards[i] = heap[prev].forwards[i]]
         IN  link([n1 EXCEPT ![prev].forwards[i] = n], n, update, i + 1, lvl)

\* DnsCache::insert(key, value, ttl) at time t: [heap, ub].
dns_insert(heap, key, value, ttl, t) ==
    LET s == search(heap, key, MAX_LEVEL, HEAD, [i \in 1..MAX_LEVEL |-> NULL], FALSE)
        next == heap[s.x].forwards[1]
    IN  IF next # NULL /\ heap[next].key = key
        THEN [heap |-> [heap EXCEPT ![next].value = value, ![next].expires = t + ttl],
              ub |-> s.ub \/ heap[next].freed]
        ELSE [heap |-> link(Append(heap, NewNode(key, value, ttl, t)),
                             Len(heap) + 1, s.update, 1, random_level(key)),
              ub |-> s.ub \/ (next # NULL /\ heap[next].freed)]

\* DnsCache::lookup(key) at time t: [ret, ub], ret a sequence of no value
\* (None) or of one.
dns_lookup(heap, key, t) ==
    LET s == search(heap, key, MAX_LEVEL, HEAD, [i \in 1..MAX_LEVEL |-> NULL], FALSE)
        next == heap[s.x].forwards[1]
    IN  [ret |-> IF next # NULL /\ heap[next].key = key /\ heap[next].expires > t
                 THEN << heap[next].value >> ELSE <<>>,
         ub |-> s.ub \/ (next # NULL /\ heap[next].freed)]

\* DnsCache::cleanup_expired at time t, from prev on: an expired node is cut
\* out of level 0 and freed; its links at the levels above stay.
RECURSIVE cleanup_from(_, _, _, _)
cleanup_from(heap, prev, t, ub) ==
    LET curr == heap[prev].forwards[1]
    IN  IF curr = NULL THEN [heap |-> heap, ub |-> ub]
        ELSE IF heap[curr].freed THEN [heap |-> heap, ub |-> TRUE]
        ELSE IF heap[curr].expires <= t
        THEN cleanup_from([heap EXCEPT ![prev].forwards[1] = heap[curr].forwards[1],
                                        ![curr].freed = TRUE],
                          prev, t, ub)
        ELSE cleanup_from(heap, curr, t, ub)

cleanup_expired(heap, t) == cleanup_from(heap, HEAD, t, FALSE)

VARIABLES
    dnsNodes,      \* the heap: node 1 is the sentinel; [key, value, expires, forwards, freed]
    dnsNow,        \* Instant::now(), in seconds
    dnsLast,       \* the last call: [op, key, ret, ub]
    dnsLatest      \* history: key -> [value, expires] of the latest insert of the key

dnsVars == <<dnsNodes, dnsNow, dnsLast, dnsLatest>>

NoDnsCall == [op |-> "none", key |-> <<>>, ret |-> <<>>, ub |-> FALSE]

\* DnsCache::new.
InitDns ==
    /\ dnsNodes = << NewNode(<<>>, "0.0.0.0", TTL_DEFAULT, 0) >>
    /\ dnsNow = 0
    /\ dnsLast = NoDnsCall
    /\ dnsLatest = <<>>

\* Time passes.
DnsTick ==
    /\ dnsNow < MaxDnsTime
    /\ dnsNow' = dnsNow + 1
    /\ dnsLast' = NoDnsCall
    /\ UNCHANGED <<dnsNodes, dnsLatest>>

\* cache.insert(key, value, ttl).
Insert(key, value, ttl) ==
    /\ Len(dnsNodes) < MaxDnsNodes + 1
    /\ \E r \in {dns_insert(dnsNodes, key, value, ttl, dnsNow)} :
          /\ dnsNodes' = r.heap
          /\ dnsLast' = [op |-> "insert", key |-> key, ret |-> <<>>, ub |-> r.ub]
    /\ dnsLatest' = Put(dnsLatest, key, [value |-> value, expires |-> dnsNow + ttl])
    /\ UNCHANGED dnsNow

\* cache.lookup(key).  A lookup that reads freed memory may return anything.
Lookup(key) ==
    /\ \E r \in {dns_lookup(dnsNodes, key, dnsNow)} :
          \E ret \in (IF r.ub THEN {<<>>} \cup {<<v>> : v \in DnsValues} ELSE {r.ret}) :
              dnsLast' = [op |-> "lookup", key |-> key, ret |-> ret, ub |-> r.ub]
    /\ UNCHANGED <<dnsNodes, dnsNow, dnsLatest>>

\* cache.cleanup_expired().
CleanupExpired ==
    /\ \E r \in {cleanup_expired(dnsNodes, dnsNow)} :
          /\ dnsNodes' = r.heap
          /\ dnsLast' = [op |-> "cleanup", key |-> <<>>, ret |-> <<>>, ub |-> r.ub]
    /\ UNCHANGED <<dnsNow, dnsLatest>>

DnsInsert == \E key \in DnsKeys, value \in DnsValues, ttl \in DnsTtls : Insert(key, value, ttl)

DnsLookup == \E key \in DnsKeys : Lookup(key)

\* ------------------------------------------------------------------------
\* Properties of the DNS cache
\* ------------------------------------------------------------------------
\* What lookup(key) is to return: the value of the latest insert of key while
\* its TTL has not elapsed, and None otherwise.
Fresh(key) ==
    IF key \in DOMAIN dnsLatest /\ dnsLatest[key].expires > dnsNow
    THEN << dnsLatest[key].value >> ELSE <<>>

\* C22: in a sequence of insert, lookup and cleanup_expired calls, lookup(k)
\* returns the value of the latest insert of k while its TTL has not elapsed
\* and None once it has or if k was never inserted; after cleanup_expired
\* every unexpired key is still found.
C22_LookupLatest ==
    /\ dnsLast.op = "lookup" => dnsLast.ret = Fresh(dnsLast.key)
    /\ dnsLast.op = "cleanup" =>
          \A key \in DnsKeys :
              Fresh(key) # <<>> =>
                  /\ dns_lookup(dnsNodes, key, dnsNow).ret = Fresh(key)
                  /\ ~dns_lookup(dnsNodes, key, dnsNow).ub

\* C34: once cleanup_expired has freed a node, no forward pointer of any
\* level of a node still in use refers to it, and no lookup or insert made
\* afterwards reads a freed node.
C34_FullyUnlinked ==
    /\ \A n \in DOMAIN dnsNodes :
          dnsNodes[n].freed =>
              \A m \in DOMAIN dnsNodes :
                  ~dnsNodes[m].freed =>
                      \A i \in 1..MAX_LEVEL : dnsNodes[m].forwards[i] # n
    /\ ~dnsLast.ub

(***************************************************************************)
(* Keep-Alive tuning: selenia_http/src/keepalive.rs, and the Keep-Alive    *)
(* header respond_simple writes (selenia_http/src/lib.rs).                 *)
(***************************************************************************)

MaxKaEvents == 2
MaxKaCalls == 4
MaxKaClock == 5000
KaClockStep == 2500

TIMEOUT_MIN == 10
TIMEOUT_MAX == 120
MAX_MIN == 50
MAX_MAX == 500
\* ALPHA = 0.2 as the fraction ALPHA_NUM / ALPHA_DEN.
ALPHA_NUM == 1
ALPHA_DEN == 5
PERIOD_MS == 5000
TIMEOUT_START == 30
MAX_START == 100
\* The literal respond_simple writes: "Keep-Alive: timeout=30, max=100".
HEADER_TIMEOUT == 30
HEADER_MAX == 100

\* now_ms() is Instant::now().elapsed(): the time between the creation of a
\* fresh Instant and the reading of it, in whole milliseconds.  It does not
\* depend on the wall clock; the values are those of a thread that runs on
\* (0) and of one that is descheduled for a whole period between the two reads.
NowMsValues == {0, PERIOD_MS}

\* (1.0 - ALPHA) * cur + ALPHA * target, then f64::round (the value is a
\* multiple of 1/5, never a tie).
ema_round(cur, target) ==
    ((2 * ((ALPHA_DEN - ALPHA_NUM) * cur + ALPHA_NUM * target)) + ALPHA_DEN) \div (2 * ALPHA_DEN)

\* ratio = if new < 1.0 { 0.0 } else { reuse / new }; the targets for
\* ratio > 1.5, ratio < 0.5 and the band between.
ema_target(new, reuse, cur_t, cur_m) ==
    IF new >= 1 /\ 2 * reuse > 3 * new THEN <<TIMEOUT_MAX, MAX_MAX>>
    ELSE IF new < 1 \/ 2 * reuse < new THEN <<TIMEOUT_MIN, MAX_MIN>>
    ELSE <<cur_t, cur_m>>

\* maybe_eval on the statics st, with now the value now_ms() returned and
\* checked telling whether the build checks integer overflow.  now - last is a
\* u64 subtraction: with now < last it panics in a checked build and wraps to a
\* value above PERIOD_MS otherwise.
maybe_eval(st, now_read, checked) ==
    LET last == st.LAST_EVAL
        target == ema_target(st.NEW_CONN, st.REUSE_REQ, st.TIMEOUT_CUR, st.MAX_CUR)
    IN  IF now_read < last /\ checked
        THEN [st |-> st, evaluated |-> FALSE, panicked |-> TRUE]
        ELSE IF now_read >= last /\ now_read - last < PERIOD_MS
        THEN [st |-> st, evaluated |-> FALSE, panicked |-> FALSE]
        ELSE [st |-> [NEW_CONN |-> 0, REUSE_REQ |-> 0,
                      TIMEOUT_CUR |-> ema_round(st.TIMEOUT_CUR, target[1]),
                      MAX_CUR |-> ema_round(st.MAX_CUR, target[2]),
                      LAST_EVAL |-> now_read],
              evaluated |-> TRUE, panicked |-> FALSE]

\* current()
current(st) == <<st.TIMEOUT_CUR, st.MAX_CUR>>

VARIABLES
    kaStatics,     \* NEW_CONN, REUSE_REQ, TIMEOUT_CUR, MAX_CUR, LAST_EVAL
    kaClock,       \* wall time in ms since the process started
    kaEvalClock,   \* wall time of the last evaluation; 0 before the first
    kaPanicked,    \* a record call panicked on the subtraction
    kaCalls,       \* the number of record calls made
    kaLast,        \* the last record call
    kaAdvertised   \* the Keep-Alive values of the last response header

kaVars == <<kaStatics, kaClock, kaEvalClock, kaPanicked, kaCalls, kaLast, kaAdvertised>>

NoKaCall ==
    [op |-> "none", since |-> 0, new |-> 0, reuse |-> 0, timeout_before |-> 0,
     max_before |-> 0, evaluated |-> FALSE]

InitKeepAlive ==
    /\ kaStatics = [NEW_CONN |-> 0, REUSE_REQ |-> 0, TIMEOUT_CUR |-> TIMEOUT_START,
                    MAX_CUR |-> MAX_START, LAST_EVAL |-> 0]
    /\ kaClock = 0
    /\ kaEvalClock = 0
    /\ kaPanicked = FALSE
    /\ kaCalls = 0
    /\ kaLast = NoKaCall
    /\ kaAdvertised = <<>>

\* Wall time passes.
KaTick ==
    /\ kaClock + KaClockStep <= MaxKaClock
    /\ kaClock' = kaClock + KaClockStep
    /\ UNCHANGED <<kaStatics, kaEvalClock, kaPanicked, kaCalls, kaLast, kaAdvertised>>

\* The common part of record_new_conn and record_reuse_req: the counter is
\* raised, then maybe_eval runs.
KaRecord(op, counted, now_read, checked) ==
    /\ ~kaPanicked
    /\ kaCalls < MaxKaCalls
    /\ kaCalls' = kaCalls + 1
    /\ \E r \in {maybe_eval(counted, now_read, checked)} :
          /\ kaStatics' = r.st
          /\ kaPanicked' = r.panicked
          /\ kaEvalClock' = IF r.evaluated THEN kaClock ELSE kaEvalClock
          /\ kaLast' = [op |-> op, since |-> kaClock - kaEvalClock,
                        new |-> counted.NEW_CONN, reuse |-> counted.REUSE_REQ,
                        timeout_before |-> counted.TIMEOUT_CUR,
                        max_before |-> counted.MAX_CUR, evaluated |-> r.evaluated]
    /\ UNCHANGED <<kaClock, kaAdvertised>>

\* record_new_conn()
record_new_conn(now_read, checked) ==
    /\ kaStatics.NEW_CONN < MaxKaEvents
    /\ KaRecord("new", [kaStatics EXCEPT !.NEW_CONN = @ + 1], now_read, checked)

\* record_reuse_req()
record_reuse_req(now_read, checked) ==
    /\ kaStatics.REUSE_REQ < MaxKaEvents
    /\ KaRecord("reuse", [kaStatics EXCEPT !.REUSE_REQ = @ + 1], now_read, checked)

\* respond_simple on a connection that is kept alive: the header carries the
\* literal values.
RespondKeepAlive ==
    /\ ~kaPanicked
    /\ kaAdvertised' = <<HEADER_TIMEOUT, HEADER_MAX>>
    /\ UNCHANGED <<kaStatics, kaClock, kaEvalClock, kaPanicked, kaCalls, kaLast>>

KaRecordNewConn == \E n \in NowMsValues, checked \in BOOLEAN : record_new_conn(n, checked)

KaRecordReuseReq == \E n \in NowMsValues, checked \in BOOLEAN : record_reuse_req(n, checked)

\* C24: a record call made a whole period of wall time after the last
\* evaluation (or after the start) re-evaluates; an evaluation with
\* reused/new above 1.5 moves timeout and max one EMA step of 0.2 toward 120
\* and 500, one with a ratio below 0.5 moves them toward 10 and 50; the values
\* stay within [10, 120] and [50, 500].
C24_TunedPerWindow ==
    /\ (kaLast.op # "none" /\ kaLast.since >= PERIOD_MS /\ ~kaPanicked) => kaLast.evaluated
    /\ (kaLast.evaluated /\ 2 * kaLast.reuse > 3 * kaLast.new /\ kaLast.new > 0) =>
          /\ 5 * kaStatics.TIMEOUT_CUR - (4 * kaLast.timeout_before + 120) \in -2..2
          /\ 5 * kaStatics.MAX_CUR - (4 * kaLast.max_before + 500) \in -2..2
    /\ (kaLast.evaluated /\ 2 * kaLast.reuse < kaLast.new) =>
          /\ 5 * kaStatics.TIMEOUT_CUR - (4 * kaLast.timeout_before + 10) \in -2..2
          /\ 5 * kaStatics.MAX_CUR - (4 * kaLast.max_before + 50) \in -2..2
    /\ kaStatics.TIMEOUT_CUR \in 10..120
    /\ kaStatics.MAX_CUR \in 50..500

(***************************************************************************)
(* Session tickets: TicketStore in selenia_core/src/crypto/tls13.rs.       *)
(***************************************************************************)

MaxTkTime == 3
MaxIssues == 2
TICKET_LEN == 32

\* What fill_random leaves in the ticket buffer: the bytes the OS gave, or the
\* zeros the buffer started with when the call fails (the result is dropped).
ZeroTicket == [i \in 1..TICKET_LEN |-> 0]
RandomTickets == {[i \in 1..TICKET_LEN |-> 17], [i \in 1..TICKET_LEN |-> 34]}
FilledTickets == RandomTickets \cup {ZeroTicket}

\* Tickets a peer presents: those above, one no issue ever returns, a ticket
\* cut short by one byte, and the empty one.
PresentedTickets ==
    FilledTickets \cup {[i \in 1..TICKET_LEN |-> 51], [i \in 1..(TICKET_LEN - 1) |-> 17], <<>>}

\* Lifetimes in ms.
Lifetimes == {0, 2}

\* resume with a ticket still accepted at the very time of its expiry.
resume_at_expiry(store, ticket, time) ==
    IF ticket \in DOMAIN store /\ store[ticket].exp >= time
    THEN <<store[ticket].state>>
    ELSE <<>>

\* TicketStore::issue with the buffer fill_random left, at time: the store
\* after the insert and the ticket returned.
issue(store, state, lifetime, filled, time) ==
    [store |-> [t \in (DOMAIN store) \cup {filled} |->
                   IF t = filled THEN [state |-> state, exp |-> time + lifetime]
                   ELSE store[t]],
     ticket |-> filled]

\* TicketStore::resume at time: the Option returned, as a sequence of no or
\* one state.
resume(store, ticket, time) ==
    IF ticket \in DOMAIN store /\ store[ticket].exp > time
    THEN <<store[ticket].state>>
    ELSE <<>>

VARIABLES
    tickets,     \* the HashMap: ticket -> (state, expiry)
    tkNow,       \* now_ms()
    tkIssued,    \* every issue so far, in order: ticket, state, time, lifetime
    tkLast       \* the last resume, with the number of issues before it

tkVars == <<tickets, tkNow, tkIssued, tkLast>>

NoResume == [op |-> "none", ticket |-> <<>>, time |-> 0, issued |-> 0, ret |-> <<>>]

\* TicketStore::default()
InitTickets ==
    /\ tickets = <<>>
    /\ tkNow = 0
    /\ tkIssued = <<>>
    /\ tkLast = NoResume

TkTick ==
    /\ tkNow < MaxTkTime
    /\ tkNow' = tkNow + 1
    /\ UNCHANGED <<tickets, tkIssued, tkLast>>

Issue(state, lifetime, filled) ==
    /\ Len(tkIssued) < MaxIssues
    /\ \E r \in {issue(tickets, state, lifetime, filled, tkNow)} :
          /\ tickets' = r.store
          /\ tkIssued' = Append(tkIssued, [ticket |-> r.ticket, state |-> state,
                                           time |-> tkNow, lifetime |-> lifetime])
    /\ UNCHANGED <<tkNow, tkLast>>

Resume(ticket) ==
    /\ tkLast' = [op |-> "resume", ticket |-> ticket, time |-> tkNow,
                  issued |-> Len(tkIssued), ret |-> resume(tickets, ticket, tkNow)]
    /\ UNCHANGED <<tickets, tkNow, tkIssued>>

TkIssue ==
    \E state \in {NewTls13State, HandshakeTls13State}, lifetime \in Lifetimes,
       filled \in FilledTickets : Issue(state, lifetime, filled)

TkResume == \E ticket \in PresentedTickets : Resume(ticket)

\* The issues made before the last resume that returned its ticket, as
\* indices into tkIssued, and the latest of them.
IssuesOfLast == {i \in 1..tkLast.issued : tkIssued[i].ticket = tkLast.ticket}

LatestIssue == tkIssued[CHOOSE i \in IssuesOfLast : \A j \in IssuesOfLast : j <= i]

\* C25: resume(ticket) returns a state exactly when the store issued that very
\* ticket and the expiry it holds for it (the time of the issue plus the
\* lifetime) is strictly later than the time of the call; the state is the one
\* the ticket was issued for.  A ticket never issued, or one at or past its
\* expiry, gives None.
C25_ResumeIffValid ==
    tkLast.op = "resume" =>
        IF IssuesOfLast # {} /\ LatestIssue.time + LatestIssue.lifetime > tkLast.time
        THEN tkLast.ret = <<LatestIssue.state>>
        ELSE tkLast.ret = <<>>

\* A ticket presented exactly at its expiry is refused.
C25_Witness ==
    /\ tkLast.op = "resume"
    /\ tkLast.ret = <<>>
    /\ IssuesOfLast # {}
    /\ LatestIssue.time + LatestIssue.lifetime = tkLast.time
    /\ LatestIssue.lifetime > 0

(***************************************************************************)
(* FlowControl::update_window at the full width of i32                     *)
(* (selenia_http/src/http2.rs).                                            *)
(***************************************************************************)

MaxFcUpdates == 3

\* WINDOW_UPDATE increments: none, one byte, the default window and the
\* largest increment a frame can carry (2^31 - 1).
FcIncrements == {0, 1, DEFAULT_STREAM_WINDOW, I32Max}

\* a + b leaves the range of i32 (a and b within it, b >= 0).
add_overflows(a, b) == a > 0 /\ b > I32Max - a

\* FlowControl::update_window as a build without overflow checks runs it:
\* the sum wraps, and min(i32::MAX) is applied to the wrapped sum.
update_window(cw, sws, id, increment) ==
    IF id = 0
    THEN [conn_window |-> Min(AddI32(cw, increment), I32Max), stream_windows |-> sws]
    ELSE LET s1 == window_for(sws, id)
         IN  [conn_window |-> cw,
              stream_windows |-> [s1 EXCEPT ![id] = Min(AddI32(@, increment), I32Max)]]

\* The window update_window(id, ..) adds to.
target_window(cw, sws, id) == IF id = 0 THEN cw ELSE window_for(sws, id)[id]

SETTINGS_HEADER_TABLE_SIZE == 1
SETTINGS_INITIAL_WINDOW_SIZE == 4
SETTINGS_MAX_FRAME_SIZE == 5
FLAG_ACK == 1
SETTING_LEN == 6

\* SETTINGS payloads: INITIAL_WINDOW_SIZE = 1000; INITIAL_WINDOW_SIZE = 2^32 - 1;
\* MAX_FRAME_SIZE = 16384; HEADER_TABLE_SIZE = 0 followed by
\* INITIAL_WINDOW_SIZE = 1000; one cut short by a byte; the empty one.
SettingsPayloads ==
    {<<0, 4, 0, 0, 3, 232>>, <<0, 4, 255, 255, 255, 255>>, <<0, 5, 0, 0, 64, 0>>,
     <<0, 1, 0, 0, 0, 0, 0, 4, 0, 0, 3, 232>>, <<0, 4, 0, 0, 3>>, <<>>}

\* Settings::decode: None (ok = FALSE) unless the length is a multiple of 6;
\* else the (id, value) pairs in order, the value kept as its four bytes.
settings_decode(buf) ==
    IF Len(buf) % SETTING_LEN # 0 THEN [ok |-> FALSE, settings |-> <<>>]
    ELSE [ok |-> TRUE,
          settings |-> [k \in 1..(Len(buf) \div SETTING_LEN) |->
                           [id |-> buf[SETTING_LEN * (k - 1) + 1] * 256 + buf[SETTING_LEN * (k - 1) + 2],
                            val |-> SubSeq(buf, SETTING_LEN * (k - 1) + 3, SETTING_LEN * k)]]]

\* `val as i32` of the u32 with big-endian bytes b.
u32_as_i32(b) ==
    (IF b[1] >= 128 THEN b[1] - 256 ELSE b[1]) * 16777216 + b[2] * 65536 + b[3] * 256 + b[4]

\* The loop of on_settings over the decoded pairs, on the connection window.
RECURSIVE apply_settings(_, _)
apply_settings(cw, settings) ==
    IF settings = <<>> THEN cw
    ELSE apply_settings(IF Head(settings).id = SETTINGS_INITIAL_WINDOW_SIZE
                        THEN u32_as_i32(Head(settings).val) ELSE cw,
                        Tail(settings))

\* Connection::on_settings on the flow-control state.
on_settings(cw, sws, flags, payload) ==
    IF (flags % 2) # 0 THEN [conn_window |-> cw, stream_windows |-> sws]
    ELSE IF settings_decode(payload).ok
    THEN [conn_window |-> apply_settings(cw, settings_decode(payload).settings),
          stream_windows |-> sws]
    ELSE [conn_window |-> cw, stream_windows |-> sws]

VARIABLES
    fcConn,      \* FlowControl.conn_window
    fcStreams,   \* FlowControl.stream_windows
    fcUpdates,   \* the number of update_window calls made
    fcLast       \* the last update_window or on_settings call

fcVars == <<fcConn, fcStreams, fcUpdates, fcLast>>

NoUpdate ==
    [op |-> "none", id |-> 0, increment |-> 0, conn_before |-> 0, streams_before |-> <<>>,
     panicked |-> FALSE]

\* FlowControl::new()
InitFlowControl ==
    /\ fcConn = DEFAULT_CONN_WINDOW
    /\ fcStreams = <<>>
    /\ fcUpdates = 0
    /\ fcLast = NoUpdate

\* update_window(id, increment).  checked tells whether the build checks
\* integer overflow: such a build panics at the addition, and the windows are
\* left as they were.
UpdateWindow(id, increment, checked) ==
    /\ fcUpdates < MaxFcUpdates
    /\ ~fcLast.panicked
    /\ fcUpdates' = fcUpdates + 1
    /\ \E panics \in {checked /\ add_overflows(target_window(fcConn, fcStreams, id), increment)} :
          /\ fcLast' = [op |-> "update_window", id |-> id, increment |-> increment,
                        conn_before |-> fcConn, streams_before |-> fcStreams,
                        panicked |-> panics]
          /\ IF panics
             THEN /\ fcConn' = fcConn
                  /\ fcStreams' = IF id = 0 THEN fcStreams ELSE window_for(fcStreams, id)
             ELSE \E r \in {update_window(fcConn, fcStreams, id, increment)} :
                     /\ fcConn' = r.conn_window
                     /\ fcStreams' = r.stream_windows

\* on_settings(fh, payload) with fh.flags = flags.
OnSettings(flags, payload) ==
    /\ ~fcLast.panicked
    /\ \E r \in {on_settings(fcConn, fcStreams, flags, payload)} :
          /\ fcConn' = r.conn_window
          /\ fcStreams' = r.stream_windows
    /\ fcLast' = [op |-> "on_settings", flags |-> flags, payload |-> payload,
                  conn_before |-> fcConn, streams_before |-> fcStreams, panicked |-> FALSE]
    /\ UNCHANGED fcUpdates

FcOnSettings == \E flags \in {0, FLAG_ACK}, payload \in SettingsPayloads : OnSettings(flags, payload)

FcUpdateWindow ==
    \E id \in ParentIds, increment \in FcIncrements, checked \in BOOLEAN :
        UpdateWindow(id, increment, checked)

\* The values a well-formed payload carries for INITIAL_WINDOW_SIZE, in order.
InitialWindowSizes(payload) ==
    SelectSeq(settings_decode(payload).settings,
              LAMBDA e : e.id = SETTINGS_INITIAL_WINDOW_SIZE)

\* C28: after a SETTINGS frame without the ACK flag that carries
\* INITIAL_WINDOW_SIZE = v, a stream created next starts with the window v and
\* the connection window is what it was before the frame; a SETTINGS frame
\* with the ACK flag changes neither the connection window nor any stream's
\* window.
C28_SettingsInitialWindow ==
    fcLast.op = "on_settings" =>
        IF fcLast.flags = FLAG_ACK
        THEN fcConn = fcLast.conn_before /\ fcStreams = fcLast.streams_before
        ELSE (settings_decode(fcLast.payload).ok /\ InitialWindowSizes(fcLast.payload) # <<>>) =>
                 /\ fcConn = fcLast.conn_before
                 /\ \A s \in StreamIds \ DOMAIN fcStreams :
                       window_for(fcStreams, s)[s] =
                           u32_as_i32(InitialWindowSizes(fcLast.payload)[
                               Len(InitialWindowSizes(fcLast.payload))].val)

\* min(w + inc, 2^31 - 1), computed without leaving the range of i32.
SaturatingSum(w, inc) == IF w > I32Max - inc THEN I32Max ELSE w + inc

\* C27: update_window(id, inc) with inc >= 0 sets the targeted window (the
\* connection window for id 0, else the window of stream id) to
\* min(w + inc, 2^31 - 1), without a panic and without a wrapped or negative
\* value, and changes no other window.
C27_SaturatingUpdate ==
    fcLast.op = "update_window" =>
        /\ ~fcLast.panicked
        /\ IF fcLast.id = 0
           THEN /\ fcConn = SaturatingSum(fcLast.conn_before, fcLast.increment)
                /\ \A s \in StreamIds :
                      WindowOf(fcStreams, s) = WindowOf(fcLast.streams_before, s)
           ELSE /\ fcConn = fcLast.conn_before
                /\ \A s \in StreamIds :
                      WindowOf(fcStreams, s) =
                          IF s = fcLast.id
                          THEN SaturatingSum(WindowOf(fcLast.streams_before, s), fcLast.increment)
                          ELSE WindowOf(fcLast.streams_before, s)

(***************************************************************************)
(* HTTP/2 frame parsing: parse_frame and FrameType::try_from               *)
(* (selenia_http/src/http2.rs).                                            *)
(***************************************************************************)

MaxFrameBuf == 10
FRAME_HEADER_LEN == 9
RESERVED_BIT == 128

\* The bytes a peer sends: 0 and 1 (lengths, the types Data and Headers, a
\* stream id) and 10, the first value that is no frame type.
FrameBytes == {0, 1, 10}

\* FrameType::try_from: the type as a sequence of one name, empty for Err(()).
frame_type_try_from(v) ==
    CASE v = 0 -> <<"Data">>
      [] v = 1 -> <<"Headers">>
      [] v = 2 -> <<"Priority">>
      [] v = 3 -> <<"RstStream">>
      [] v = 4 -> <<"Settings">>
      [] v = 5 -> <<"PushPromise">>
      [] v = 6 -> <<"Ping">>
      [] v = 7 -> <<"GoAway">>
      [] v = 8 -> <<"WindowUpdate">>
      [] v = 9 -> <<"Continuation">>
      [] OTHER -> <<>>

\* (buf[0] << 16) | (buf[1] << 8) | buf[2]
frame_length(buf) == buf[1] * 65536 + buf[2] * 256 + buf[3]

\* parse_frame: the Option as a sequence, empty for None, else one record of
\* the header and the total length.
parse_frame(buf) ==
    IF Len(buf) < FRAME_HEADER_LEN THEN <<>>
    ELSE IF Len(buf) < FRAME_HEADER_LEN + frame_length(buf) THEN <<>>
    ELSE IF frame_type_try_from(buf[4]) = <<>> THEN <<>>
    ELSE <<[header |-> [length |-> frame_length(buf),
                        type_ |-> frame_type_try_from(buf[4])[1],
                        flags |-> buf[5],
                        stream_id |-> (buf[6] % RESERVED_BIT) * 16777216 + buf[7] * 65536
                                          + buf[8] * 256 + buf[9]],
            total |-> FRAME_HEADER_LEN + frame_length(buf)]>>

VARIABLES
    pfBuf,     \* the bytes read from the peer so far
    pfLast     \* the parse_frame call made on these bytes, if any, and what it returned

pfVars == <<pfBuf, pfLast>>

NoParse == [op |-> "none", buf |-> <<>>, ret |-> <<>>]

InitFrames ==
    /\ pfBuf = <<>>
    /\ pfLast = NoParse

\* One more byte arrives.
PfRead(b) ==
    /\ Len(pfBuf) < MaxFrameBuf
    /\ pfBuf' = Append(pfBuf, b)
    /\ pfLast' = NoParse

\* parse_frame(&buf)
PfParse ==
    /\ pfLast' = [op |-> "parse_frame", buf |-> pfBuf, ret |-> parse_frame(pfBuf)]
    /\ UNCHANGED pfBuf

PfReadByte == \E b \in FrameBytes : PfRead(b)

\* The buffer holds a whole frame: its nine header bytes and the payload the
\* length field announces.
WholeFrame(buf) ==
    /\ Len(buf) >= FRAME_HEADER_LEN
    /\ Len(buf) >= FRAME_HEADER_LEN + (buf[1] * 65536 + buf[2] * 256 + buf[3])

\* C29: parse_frame returns None exactly when the buffer holds fewer than
\* 9 + length bytes; on a buffer of at least 9 + length bytes it returns the
\* header (length, flags) with the total 9 + length, whatever the type byte.
C29_NoneIffIncomplete ==
    pfLast.op = "parse_frame" =>
        /\ (pfLast.ret = <<>>) <=> ~WholeFrame(pfLast.buf)
        /\ WholeFrame(pfLast.buf) =>
              /\ Len(pfLast.ret) = 1
              /\ pfLast.ret[1].total = FRAME_HEADER_LEN + pfLast.ret[1].header.length
              /\ pfLast.ret[1].header.length
                    = pfLast.buf[1] * 65536 + pfLast.buf[2] * 256 + pfLast.buf[3]
              /\ pfLast.ret[1].header.flags = pfLast.buf[5]

(***************************************************************************)
(* EventLoop::register and deregister on their own                         *)
(* (selenia_core/src/os/event_loop.rs).                                    *)
(***************************************************************************)

MaxRegisters == 5
FIRST_TOKEN == 1

\* register handing out the lowest token no entry holds.
register_lowest_free(nt, es, added) ==
    LET token == CHOOSE t \in 1..(Cardinality(es) + 1) : t \notin es
    IN  [token |-> token, next_token |-> nt + 1,
         entries |-> IF added THEN es \cup {token} ELSE es, ok |-> added]

\* EventLoop::register on next_token nt and the tokens es that have an entry;
\* added tells whether ep.add succeeds.  The token is taken and next_token
\* raised before ep.add is tried.
register(nt, es, added) ==
    [token |-> nt, next_token |-> nt + 1,
     entries |-> IF added THEN es \cup {nt} ELSE es, ok |-> added]

\* EventLoop::deregister: the entry is removed, then ep.delete is called.
deregister(es, token) == es \ {token}

VARIABLES
    elNext,       \* EventLoop.next_token
    elEntries,    \* the keys of EventLoop.entries
    elReturned,   \* history: the tokens register returned, in order
    elLast        \* the last call

elVars == <<elNext, elEntries, elReturned, elLast>>

\* EventLoop::new()
InitEventLoop ==
    /\ elNext = FIRST_TOKEN
    /\ elEntries = {}
    /\ elReturned = <<>>
    /\ elLast = [op |-> "new", ok |-> TRUE, token |-> 0]

Register(added) ==
    /\ elNext <= MaxRegisters
    /\ \E r \in {register(elNext, elEntries, added)} :
          /\ elNext' = r.next_token
          /\ elEntries' = r.entries
          /\ elReturned' = IF r.ok THEN Append(elReturned, r.token) ELSE elReturned
          /\ elLast' = [op |-> "register", ok |-> r.ok, token |-> r.token]

\* deregister(token); deleted tells whether ep.delete succeeds.  A token
\* without an entry is accepted and changes nothing.
Deregister(token, deleted) ==
    /\ elEntries' = deregister(elEntries, token)
    /\ elLast' = [op |-> "deregister", ok |-> (token \notin elEntries) \/ deleted,
                  token |-> token]
    /\ UNCHANGED <<elNext, elReturned>>

ElRegister == \E added \in BOOLEAN : Register(added)

ElDeregister == \E token \in 0..MaxRegisters, deleted \in BOOLEAN : Deregister(token, deleted)

\* C30: the tokens register has returned are all at least 1 and strictly
\* increasing in the order of the calls, so none is returned twice, whatever
\* deregistrations and failed registrations came between; 0 is never returned.
C30_TokensFresh ==
    /\ \A i \in DOMAIN elReturned : elReturned[i] >= 1
    /\ \A i, j \in DOMAIN elReturned : i < j => elReturned[i] < elReturned[j]

\* register has just returned a token after an earlier token was deregistered
\* and an earlier registration failed.
C30_Witness ==
    /\ elLast.op = "register" /\ elLast.ok
    /\ Len(elReturned) >= 2
    /\ \E i \in DOMAIN elReturned : elReturned[i] \notin elEntries
    /\ elNext > Len(elReturned) + 1

(***************************************************************************)
(* QUIC stream scheduler: Scheduler in selenia_http/src/http3.rs.          *)
(***************************************************************************)

MaxQuicStream == 3
MaxQuicBytes == 2

QuicStreams == 1..MaxQuicStream

\* The byte counts enqueue is called with.
QuicByteCounts == {0, 1, 2}

\* pending.get(id), 0 for a stream without an entry.
PendingOf(pend, id) == IF id \in DOMAIN pend THEN pend[id] ELSE 0

\* enqueue without the containment test.
enqueue_always_push(fifo, pend, stream_id, bytes) ==
    [queue |-> Append(fifo, stream_id),
     pending |-> Put(pend, stream_id, PendingOf(pend, stream_id) + bytes)]

\* Scheduler::enqueue on the FIFO and the pending map.
enqueue(fifo, pend, stream_id, bytes) ==
    [queue |-> IF stream_id \in Range(fifo) THEN fifo ELSE Append(fifo, stream_id),
     pending |-> Put(pend, stream_id, PendingOf(pend, stream_id) + bytes)]

\* Scheduler::next: the while loop over pop_front.  ret is the Option as a
\* sequence of no or one id.
RECURSIVE next(_, _)
next(fifo, pend) ==
    IF fifo = <<>> THEN [queue |-> fifo, pending |-> pend, ret |-> <<>>]
    ELSE LET id == Head(fifo)
         IN  IF id \in DOMAIN pend /\ pend[id] > 0
             THEN [queue |-> IF pend[id] - 1 > 0 THEN Append(Tail(fifo), id) ELSE Tail(fifo),
                   pending |-> [pend EXCEPT ![id] = @ - 1],
                   ret |-> <<id>>]
             ELSE next(Tail(fifo), pend)

VARIABLES
    qQueue,      \* Scheduler.queue
    qPending,    \* Scheduler.pending
    qOffered,    \* history: per stream, the bytes enqueued so far
    qServed,     \* history: per stream, the number of next calls that returned it
    qLast        \* the last call

quicVars == <<qQueue, qPending, qOffered, qServed, qLast>>

\* Scheduler::default()
InitQuicSched ==
    /\ qQueue = <<>>
    /\ qPending = <<>>
    /\ qOffered = [s \in QuicStreams |-> 0]
    /\ qServed = [s \in QuicStreams |-> 0]
    /\ qLast = [op |-> "new", ret |-> <<>>]

Enqueue(stream_id, bytes) ==
    /\ qOffered[stream_id] + bytes <= MaxQuicBytes
    /\ \E r \in {enqueue(qQueue, qPending, stream_id, bytes)} :
          /\ qQueue' = r.queue
          /\ qPending' = r.pending
    /\ qOffered' = [qOffered EXCEPT ![stream_id] = @ + bytes]
    /\ qLast' = [op |-> "enqueue", ret |-> <<>>]
    /\ UNCHANGED qServed

QuicNext ==
    \E r \in {next(qQueue, qPending)} :
        /\ qQueue' = r.queue
        /\ qPending' = r.pending
        /\ qServed' = IF r.ret = <<>> THEN qServed
                      ELSE [qServed EXCEPT ![r.ret[1]] = @ + 1]
        /\ qLast' = [op |-> "next", ret |-> r.ret]
        /\ UNCHANGED qOffered

QuicEnqueue == \E s \in QuicStreams, b \in QuicByteCounts : Enqueue(s, b)

\* C31: no stream id is in the queue twice and every stream with pending
\* bytes is in the queue; and a stream with pending bytes is returned by a
\* later next call, as long as next keeps being called.
C31_QueueCoversPending ==
    /\ [](/\ \A i, j \in DOMAIN qQueue : i # j => qQueue[i] # qQueue[j]
          /\ \A s \in QuicStreams : PendingOf(qPending, s) > 0 => s \in Range(qQueue))
    /\ \A s \in QuicStreams : \A k \in 0..MaxQuicBytes :
          (PendingOf(qPending, s) > 0 /\ qServed[s] = k) ~> (qServed[s] > k)

\* next has just returned a stream for the second time while another stream
\* with pending bytes waits in the queue behind a stream that has none.
C31_Witness ==
    /\ qLast.op = "next"
    /\ qLast.ret # <<>>
    /\ qServed[qLast.ret[1]] = 2
    /\ \E s \in QuicStreams \ {qLast.ret[1]} : PendingOf(qPending, s) > 0 /\ s \in Range(qQueue)
    /\ \E s \in Range(qQueue) : PendingOf(qPending, s) = 0

(***************************************************************************)
(* QUIC flow control: FlowMgr in selenia_http/src/http3.rs.                *)
(***************************************************************************)

MaxFmCalls == 4
MaxFmStream == 2

\* The literals of FlowMgr: the connection window of new(), the window
\* consume gives a stream it has no entry for, and the one update_window does.
QUIC_CONN_WINDOW == 16384
QUIC_CONSUME_DEFAULT == 16384
QUIC_UPDATE_DEFAULT == 0

FmStreams == 1..MaxFmStream

\* update_window targets: a sequence of no id (None, the connection) or one id.
FmTargets == {<<>>} \cup {<<s>> : s \in FmStreams}

FmLens == {0, 100, 16384, 16385}
FmIncrements == {0, 100}

\* consume with the test of the connection window left out.
consume_stream_only(cw, sws, stream_id, len) ==
    LET s1 == IF stream_id \in DOMAIN sws THEN sws ELSE Put(sws, stream_id, QUIC_CONSUME_DEFAULT)
    IN  IF s1[stream_id] < len
        THEN [ok |-> FALSE, conn_window |-> cw, stream_windows |-> s1]
        ELSE [ok |-> TRUE, conn_window |-> cw - len,
              stream_windows |-> [s1 EXCEPT ![stream_id] = @ - len]]

\* FlowMgr::consume.
consume(cw, sws, stream_id, len) ==
    LET s1 == IF stream_id \in DOMAIN sws THEN sws ELSE Put(sws, stream_id, QUIC_CONSUME_DEFAULT)
    IN  IF s1[stream_id] < len \/ cw < len
        THEN [ok |-> FALSE, conn_window |-> cw, stream_windows |-> s1]
        ELSE [ok |-> TRUE, conn_window |-> cw - len,
              stream_windows |-> [s1 EXCEPT ![stream_id] = @ - len]]

\* FlowMgr::update_window; target is the Option<u64>.
fm_update_window(cw, sws, target, inc) ==
    IF target # <<>>
    THEN LET id == target[1]
             s1 == IF id \in DOMAIN sws THEN sws ELSE Put(sws, id, QUIC_UPDATE_DEFAULT)
         IN  [conn_window |-> cw, stream_windows |-> [s1 EXCEPT ![id] = @ + inc]]
    ELSE [conn_window |-> cw + inc, stream_windows |-> sws]

VARIABLES
    fmConn,       \* FlowMgr.conn_window
    fmStreams,    \* FlowMgr.stream_windows
    fmGranted,    \* history: per stream, the sum of its update_window increments
    fmConsumed,   \* history: per stream, the bytes consumed successfully
    fmCalls,      \* the number of calls made
    fmLast        \* the last call

fmVars == <<fmConn, fmStreams, fmGranted, fmConsumed, fmCalls, fmLast>>

\* FlowMgr::new()
InitFlowMgr ==
    /\ fmConn = QUIC_CONN_WINDOW
    /\ fmStreams = <<>>
    /\ fmGranted = [s \in FmStreams |-> 0]
    /\ fmConsumed = [s \in FmStreams |-> 0]
    /\ fmCalls = 0
    /\ fmLast = [op |-> "new"]

Consume(stream_id, len) ==
    /\ fmCalls < MaxFmCalls
    /\ fmCalls' = fmCalls + 1
    /\ \E r \in {consume(fmConn, fmStreams, stream_id, len)} :
          /\ fmConn' = r.conn_window
          /\ fmStreams' = r.stream_windows
          /\ fmConsumed' = IF r.ok THEN [fmConsumed EXCEPT ![stream_id] = @ + len]
                           ELSE fmConsumed
          /\ fmLast' = [op |-> "consume", stream_id |-> stream_id, len |-> len, ok |-> r.ok,
                        conn_before |-> fmConn, streams_before |-> fmStreams]
    /\ UNCHANGED fmGranted

FmUpdateWindow(target, inc) ==
    /\ fmCalls < MaxFmCalls
    /\ fmCalls' = fmCalls + 1
    /\ \E r \in {fm_update_window(fmConn, fmStreams, target, inc)} :
          /\ fmConn' = r.conn_window
          /\ fmStreams' = r.stream_windows
    /\ fmGranted' = IF target = <<>> THEN fmGranted
                    ELSE [fmGranted EXCEPT ![target[1]] = @ + inc]
    /\ fmLast' = [op |-> "update_window", target |-> target, inc |-> inc]
    /\ UNCHANGED fmConsumed

FmConsume == \E s \in FmStreams, len \in FmLens : Consume(s, len)

FmUpdate == \E target \in FmTargets, inc \in FmIncrements : FmUpdateWindow(target, inc)

\* The window a stream has in the map sws; consume starts a stream that has
\* no entry at 16384.
QuicWindowOf(sws, s) == IF s \in DOMAIN sws THEN sws[s] ELSE QUIC_CONSUME_DEFAULT

C39_WindowBalance ==
    \A s \in DOMAIN fmStreams :
        fmStreams[s] = QUIC_CONN_WINDOW + fmGranted[s] - fmConsumed[s]

(***************************************************************************)
(* DnsCache::insert called by two threads at once (selenia_core/src/dns.rs)*)
(* Each thread's search is one step; the load and the store of each level  *)
(* of the link loop are steps of their own.                                *)
(***************************************************************************)

DnsThreads == {1, 2}

VARIABLES
    rcHeap,      \* the heap: node 1 is the sentinel
    rcThread     \* per thread: pc, key, node, update, lvl, i

rcVars == <<rcHeap, rcThread>>

IdleThread ==
    [pc |-> "idle", key |-> <<>>, node |-> NULL, update |-> [i \in 1..MAX_LEVEL |-> NULL],
     lvl |-> 0, i |-> 0]

\* DnsCache::new: the sentinel alone; no thread has called insert yet.
InitDnsRace ==
    /\ rcHeap = << NewNode(<<>>, "0.0.0.0", TTL_DEFAULT, 0) >>
    /\ rcThread = [t \in DnsThreads |-> IdleThread]

\* insert(key, value, TTL_DEFAULT) up to the allocation of the new node: the
\* search of the update path, the test for an existing key, Node::new.
insert_search(t, key, value) ==
    /\ rcThread[t].pc = "idle"
    /\ \A o \in DnsThreads \ {t} : rcThread[o].key # key
    /\ \E s \in {search(rcHeap, key, MAX_LEVEL, HEAD, [i \in 1..MAX_LEVEL |-> NULL], FALSE)} :
          LET succ == rcHeap[s.x].forwards[1]
          IN  IF succ # NULL /\ rcHeap[succ].key = key
              THEN /\ rcHeap' = [rcHeap EXCEPT ![succ].value = value,
                                               ![succ].expires = TTL_DEFAULT]
                   /\ rcThread' = [rcThread EXCEPT ![t] = [IdleThread EXCEPT !.pc = "done",
                                                                             !.key = key]]
              ELSE /\ rcHeap' = Append(rcHeap, NewNode(key, value, TTL_DEFAULT, 0))
                   /\ rcThread' = [rcThread EXCEPT ![t] =
                          [pc |-> "load", key |-> key, node |-> Len(rcHeap) + 1,
                           update |-> s.update, lvl |-> random_level(key), i |-> 1]]

\* (*new_node).forwards[i].store((*prev).forwards[i].load(Acquire), Relaxed)
insert_load(t) ==
    LET th == rcThread[t]
    IN  /\ th.pc = "load"
        /\ rcHeap' = [rcHeap EXCEPT ![th.node].forwards[th.i] =
                                        rcHeap[th.update[th.i]].forwards[th.i]]
        /\ rcThread' = [rcThread EXCEPT ![t].pc = "store"]

\* (*prev).forwards[i].store(new_node, Release), and the loop's next round.
insert_store(t) ==
    LET th == rcThread[t]
    IN  /\ th.pc = "store"
        /\ rcHeap' = [rcHeap EXCEPT ![th.update[th.i]].forwards[th.i] = th.node]
        /\ rcThread' = [rcThread EXCEPT ![t].i = th.i + 1,
                                        ![t].pc = IF th.i + 1 > th.lvl THEN "done" ELSE "load"]

RaceSearch == \E t \in DnsThreads, key \in DnsKeys, value \in DnsValues : insert_search(t, key, value)

RaceLoad == \E t \in DnsThreads : insert_load(t)

RaceStore == \E t \in DnsThreads : insert_store(t)

\* The keys of the level-0 list from node x on, in list order.
RECURSIVE Level0Keys(_, _, _)
Level0Keys(heap, x, fuel) ==
    IF x = NULL \/ fuel = 0 THEN <<>>
    ELSE <<heap[x].key>> \o Level0Keys(heap, heap[x].forwards[1], fuel - 1)

\* C33: when two threads have inserted two different keys at the same time
\* and both calls have returned, lookup finds both keys, and the level-0 list
\* is in strictly ascending order of key.
C33_NoLostInsert ==
    (\A t \in DnsThreads : rcThread[t].pc = "done") =>
        /\ \A t \in DnsThreads : dns_lookup(rcHeap, rcThread[t].key, 0).ret # <<>>
        /\ LET keys == Level0Keys(rcHeap, rcHeap[HEAD].forwards[1], Len(rcHeap))
           IN  \A i \in 1..(Len(keys) - 1) : StrLess(keys[i], keys[i + 1])

(***************************************************************************)
(* Sessions resumed from tickets and the records they seal                 *)
(* (TicketStore and encrypt_application_data, crypto/tls13.rs).            *)
(***************************************************************************)

MaxSessions == 3
MaxSessionRecords == 2
MaxRsTime == 1

VARIABLES
    rsStore,      \* the TicketStore
    rsSessions,   \* the Tls13State of each session; session 1 made the handshake
    rsNow,        \* now_ms()
    rsUsed        \* history: session, call number, key and nonce of every seal

rsVars == <<rsStore, rsSessions, rsNow, rsUsed>>

\* TicketStore::default() and the state process_client_hello returned.
InitResumption ==
    /\ rsStore = <<>>
    /\ rsSessions = << HandshakeTls13State >>
    /\ rsNow = 0
    /\ rsUsed = {}

RsTick ==
    /\ rsNow < MaxRsTime
    /\ rsNow' = rsNow + 1
    /\ UNCHANGED <<rsStore, rsSessions, rsUsed>>

\* store.issue(&state, lifetime) for the state of session s.
RsIssue ==
    \E s \in DOMAIN rsSessions, lifetime \in Lifetimes, filled \in RandomTickets :
        /\ rsStore' = issue(rsStore, rsSessions[s], lifetime, filled, rsNow).store
        /\ UNCHANGED <<rsSessions, rsNow, rsUsed>>

\* store.resume(ticket): a returned state starts a session of its own.
RsResume ==
    \E ticket \in RandomTickets :
        /\ Len(rsSessions) < MaxSessions
        /\ \E ret \in {resume(rsStore, ticket, rsNow)} :
              /\ ret # <<>>
              /\ rsSessions' = Append(rsSessions, ret[1])
        /\ UNCHANGED <<rsStore, rsNow, rsUsed>>

\* encrypt_application_data(&mut state, plaintext) on the state of session s.
RsEncrypt ==
    \E s \in DOMAIN rsSessions, plaintext \in Plaintexts :
        /\ rsSessions[s].server_seq < MaxSessionRecords
        /\ \E r \in {encrypt_application_data(rsSessions[s], plaintext)} :
              /\ rsSessions' = [rsSessions EXCEPT ![s] = r.state]
              /\ rsUsed' = rsUsed \cup
                     {[session |-> s,
                       call |-> Cardinality({u \in rsUsed : u.session = s}) + 1,
                       key |-> rsSessions[s].server_write_key,
                       nonce |-> r.nonce]}
        /\ UNCHANGED <<rsStore, rsNow>>

\* C38: encrypt_application_data never seals two records under the same key
\* with the same nonce, whether the two calls belong to one session, to a
\* session and one resumed from its ticket, or to two resumed sessions.
C38_NoNonceReuse ==
    \A a, b \in rsUsed : (a.key = b.key /\ a.nonce = b.nonce) => a = b

vars == <<schedVars, parserVars, engineVars, masterVars, hpackVars, streamVars, tlsVars, recVars, zrttVars, rlVars, reqVars, fqVars, dnsVars, kaVars, tkVars, fcVars, pfVars, elVars, quicVars, fmVars, rcVars, rsVars>>

\* Every specification starts all components in their initial state and
\* drives one of them; the others stay as they are.
notSched == <<parserVars, engineVars, masterVars, hpackVars, streamVars, tlsVars, recVars, zrttVars, rlVars, reqVars, fqVars, dnsVars, kaVars, tkVars, fcVars, pfVars, elVars, quicVars, fmVars, rcVars, rsVars>>

notParser == <<schedVars, engineVars, masterVars, hpackVars, streamVars, tlsVars, recVars, zrttVars, rlVars, reqVars, fqVars, dnsVars, kaVars, tkVars, fcVars, pfVars, elVars, quicVars, fmVars, rcVars, rsVars>>

notEngine == <<schedVars, parserVars, masterVars, hpackVars, streamVars, tlsVars, recVars, zrttVars, rlVars, reqVars, fqVars, dnsVars, kaVars, tkVars, fcVars, pfVars, elVars, quicVars, fmVars, rcVars, rsVars>>

notMaster == <<schedVars, parserVars, engineVars, hpackVars, streamVars, tlsVars, recVars, zrttVars, rlVars, reqVars, fqVars, dnsVars, kaVars, tkVars, fcVars, pfVars, elVars, quicVars, fmVars, rcVars, rsVars>>

notHpack == <<schedVars, parserVars, engineVars, masterVars, streamVars, tlsVars, recVars, zrttVars, rlVars, reqVars, fqVars, dnsVars, kaVars, tkVars, fcVars, pfVars, elVars, quicVars, fmVars, rcVars, rsVars>>

notStreams == <<schedVars, parserVars, engineVars, masterVars, hpackVars, tlsVars, recVars, zrttVars, rlVars, reqVars, fqVars, dnsVars, kaVars, tkVars, fcVars, pfVars, elVars, quicVars, fmVars, rcVars, rsVars>>

notTls == <<schedVars, parserVars, engineVars, masterVars, hpackVars, streamVars, recVars, zrttVars, rlVars, reqVars, fqVars, dnsVars, kaVars, tkVars, fcVars, pfVars, elVars, quicVars, fmVars, rcVars, rsVars>>

notRec == <<schedVars, parserVars, engineVars, masterVars, hpackVars, streamVars, tlsVars, zrttVars, rlVars, reqVars, fqVars, dnsVars, kaVars, tkVars, fcVars, pfVars, elVars, quicVars, fmVars, rcVars, rsVars>>

notZeroRtt == <<schedVars, parserVars, engineVars, masterVars, hpackVars, streamVars, tlsVars, recVars, rlVars, reqVars, fqVars, dnsVars, kaVars, tkVars, fcVars, pfVars, elVars, quicVars, fmVars, rcVars, rsVars>>

notRateLimit == <<schedVars, parserVars, engineVars, masterVars, hpackVars, streamVars, tlsVars, recVars, zrttVars, reqVars, fqVars, dnsVars, kaVars, tkVars, fcVars, pfVars, elVars, quicVars, fmVars, rcVars, rsVars>>

notChecks == <<schedVars, parserVars, engineVars, masterVars, hpackVars, streamVars, tlsVars, recVars, zrttVars, rlVars, fqVars, dnsVars, kaVars, tkVars, fcVars, pfVars, elVars, quicVars, fmVars, rcVars, rsVars>>

notFirst == <<schedVars, parserVars, engineVars, masterVars, hpackVars, streamVars, tlsVars, recVars, zrttVars, rlVars, reqVars, dnsVars, kaVars, tkVars, fcVars, pfVars, elVars, quicVars, fmVars, rcVars, rsVars>>

notDns == <<schedVars, parserVars, engineVars, masterVars, hpackVars, streamVars, tlsVars, recVars, zrttVars, rlVars, reqVars, fqVars, kaVars, tkVars, fcVars, pfVars, elVars, quicVars, fmVars, rcVars, rsVars>>

notKeepAlive == <<schedVars, parserVars, engineVars, masterVars, hpackVars, streamVars, tlsVars, recVars, zrttVars, rlVars, reqVars, fqVars, dnsVars, tkVars, fcVars, pfVars, elVars, quicVars, fmVars, rcVars, rsVars>>

notTickets == <<schedVars, parserVars, engineVars, masterVars, hpackVars, streamVars, tlsVars, recVars, zrttVars, rlVars, reqVars, fqVars, dnsVars, kaVars, fcVars, pfVars, elVars, quicVars, fmVars, rcVars, rsVars>>

notFlowControl == <<schedVars, parserVars, engineVars, masterVars, hpackVars, streamVars, tlsVars, recVars, zrttVars, rlVars, reqVars, fqVars, dnsVars, kaVars, tkVars, pfVars, elVars, quicVars, fmVars, rcVars, rsVars>>

notFrames == <<schedVars, parserVars, engineVars, masterVars, hpackVars, streamVars, tlsVars, recVars, zrttVars, rlVars, reqVars, fqVars, dnsVars, kaVars, tkVars, fcVars, elVars, quicVars, fmVars, rcVars, rsVars>>

notEventLoop == <<schedVars, parserVars, engineVars, masterVars, hpackVars, streamVars, tlsVars, recVars, zrttVars, rlVars, reqVars, fqVars, dnsVars, kaVars, tkVars, fcVars, pfVars, quicVars, fmVars, rcVars, rsVars>>

notQuicSched == <<schedVars, parserVars, engineVars, masterVars, hpackVars, streamVars, tlsVars, recVars, zrttVars, rlVars, reqVars, fqVars, dnsVars, kaVars, tkVars, fcVars, pfVars, elVars, fmVars, rcVars, rsVars>>

notFlowMgr == <<schedVars, parserVars, engineVars, masterVars, hpackVars, streamVars, tlsVars, recVars, zrttVars, rlVars, reqVars, fqVars, dnsVars, kaVars, tkVars, fcVars, pfVars, elVars, quicVars, rcVars, rsVars>>

notDnsRace == <<schedVars, parserVars, engineVars, masterVars, hpackVars, streamVars, tlsVars, recVars, zrttVars, rlVars, reqVars, fqVars, dnsVars, kaVars, tkVars, fcVars, pfVars, elVars, quicVars, fmVars, rsVars>>

notResumption == <<schedVars, parserVars, engineVars, masterVars, hpackVars, streamVars, tlsVars, recVars, zrttVars, rlVars, reqVars, fqVars, dnsVars, kaVars, tkVars, fcVars, pfVars, elVars, quicVars, fmVars, rcVars>>

Init == InitSched /\ IdleParser /\ InitEngine /\ InitMaster /\ InitHpack /\ InitStreams /\ InitTls /\ InitRec /\ InitZeroRtt /\ InitRateLimit /\ InitChecks /\ InitFirst /\ InitDns /\ InitKeepAlive /\ InitTickets /\ InitFlowControl /\ InitFrames /\ InitEventLoop /\ InitQuicSched /\ InitFlowMgr /\ InitDnsRace /\ InitResumption

NextSched ==
    \/ QueueData /\ UNCHANGED notSched
    \/ NextStream /\ UNCHANGED notSched
    \/ WindowUpdate /\ UNCHANGED notSched

SpecSched == Init /\ [][NextSched]_vars

NextTree ==
    \/ Priority /\ UNCHANGED notSched
    \/ QueueData /\ UNCHANGED notSched

SpecTree == Init /\ [][NextTree]_vars

InitParserSpec == InitSched /\ InitParser /\ InitEngine /\ InitMaster /\ InitHpack /\ InitStreams /\ InitTls /\ InitRec /\ InitZeroRtt /\ InitRateLimit /\ InitChecks /\ InitFirst /\ InitDns /\ InitKeepAlive /\ InitTickets /\ InitFlowControl /\ InitFrames /\ InitEventLoop /\ InitQuicSched /\ InitFlowMgr /\ InitDnsRace /\ InitResumption

NextParser ==
    \/ ParserFeed /\ UNCHANGED notParser
    \/ ParserAdvance /\ UNCHANGED notParser

SpecParser == InitParserSpec /\ [][NextParser]_vars

NextEngine ==
    \/ ClientConnect /\ UNCHANGED notEngine
    \/ EngineClientStart /\ UNCHANGED notEngine
    \/ EngineClientSend /\ UNCHANGED notEngine
    \/ EngineClientClose /\ UNCHANGED notEngine
    \/ WorkerSigterm /\ UNCHANGED notEngine
    \/ EngineBegin /\ UNCHANGED notEngine
    \/ EngineHandle /\ UNCHANGED notEngine
    \/ EndIteration /\ UNCHANGED notEngine

SpecEngine == Init /\ [][NextEngine]_vars

\* The event loop keeps running: an event waiting is handled, the iteration
\* ends, and poll's one-second timeout lets time pass.
SpecEngineLive ==
    /\ SpecEngine
    /\ WF_vars(EngineHandle /\ UNCHANGED notEngine)
    /\ WF_vars(EndIteration /\ UNCHANGED notEngine)
    /\ WF_vars(EngineBegin /\ UNCHANGED notEngine)
    /\ SF_vars(EngineBeginLater /\ UNCHANGED notEngine)

\* The steps of the master process.
MasterStep ==
    \/ MasterSpawn
    \/ MasterCheck
    \/ MasterTermSignal
    \/ MasterRespawn
    \/ MasterReloadSignal
    \/ MasterReloadAssign
    \/ MasterReap
    \/ MasterSleep

NextMaster ==
    \/ MasterSpawn /\ UNCHANGED notMaster
    \/ MasterCheck /\ UNCHANGED notMaster
    \/ MasterTermSignal /\ UNCHANGED notMaster
    \/ MasterRespawn /\ UNCHANGED notMaster
    \/ MasterReloadSignal /\ UNCHANGED notMaster
    \/ MasterReloadAssign /\ UNCHANGED notMaster
    \/ MasterReap /\ UNCHANGED notMaster
    \/ MasterSleep /\ UNCHANGED notMaster
    \/ MasterSigterm /\ UNCHANGED notMaster
    \/ MasterSighup /\ UNCHANGED notMaster
    \/ WorkerExits /\ UNCHANGED notMaster
    \/ WorkerCrashes /\ UNCHANGED notMaster

SpecMaster == Init /\ [][NextMaster]_vars

\* The master runs whenever it has a step to take, and a worker that was sent
\* SIGTERM exits; signals and crashes may or may not happen.
SpecMasterLive ==
    /\ Init
    /\ [][NextMaster]_vars
    /\ WF_vars(MasterStep /\ UNCHANGED notMaster)
    /\ WF_vars(WorkerExits /\ UNCHANGED notMaster)

NextHpack ==
    \/ HpackEncode /\ UNCHANGED notHpack
    \/ Decode /\ UNCHANGED notHpack

SpecHpack == Init /\ [][NextHpack]_vars

NextHpackTables ==
    \/ HpackEncode /\ UNCHANGED notHpack
    \/ Decode /\ UNCHANGED notHpack
    \/ HpackDecodeExtra /\ UNCHANGED notHpack

SpecHpackTables == Init /\ [][NextHpackTables]_vars

NextStreams ==
    \/ ConnOnFrame /\ UNCHANGED notStreams
    \/ ConnOnDataFrame /\ UNCHANGED notStreams

SpecStreams == Init /\ [][NextStreams]_vars

NextTls ==
    \/ TlsDrive /\ UNCHANGED notTls

SpecTls == Init /\ [][NextTls]_vars

NextRec ==
    \/ RecEncrypt /\ UNCHANGED notRec
    \/ RecDecrypt /\ UNCHANGED notRec

SpecRec == Init /\ [][NextRec]_vars

NextZeroRtt ==
    \/ CtxMaybeBuffer0rtt /\ UNCHANGED notZeroRtt
    \/ Flush0rtt /\ UNCHANGED notZeroRtt

SpecZeroRtt == Init /\ [][NextZeroRtt]_vars

NextRateLimit ==
    \/ RlTick /\ UNCHANGED notRateLimit
    \/ RlConfigure /\ UNCHANGED notRateLimit
    \/ RlAllow /\ UNCHANGED notRateLimit

SpecRateLimit == Init /\ [][NextRateLimit]_vars

NextPeerLimit ==
    \/ RlTick /\ UNCHANGED notRateLimit
    \/ EngineRegisterPeer /\ UNCHANGED notRateLimit
    \/ EnginePeerRead /\ UNCHANGED notRateLimit

SpecPeerLimit == Init /\ [][NextPeerLimit]_vars

NextChecks ==
    \/ ChecksRbacLoad /\ UNCHANGED notChecks
    \/ ChecksRegisterFilter /\ UNCHANGED notChecks
    \/ ChecksHandleRequest /\ UNCHANGED notChecks

SpecChecks == Init /\ [][NextChecks]_vars

NextFirst ==
    \/ FirstClientConnect /\ UNCHANGED notFirst
    \/ FirstClientWrite /\ UNCHANGED notFirst
    \/ FirstReadable /\ UNCHANGED notFirst

SpecFirst == Init /\ [][NextFirst]_vars

NextDns ==
    \/ DnsTick /\ UNCHANGED notDns
    \/ DnsInsert /\ UNCHANGED notDns
    \/ DnsLookup /\ UNCHANGED notDns
    \/ CleanupExpired /\ UNCHANGED notDns

SpecDns == Init /\ [][NextDns]_vars


NextKeepAlive ==
    \/ KaTick /\ UNCHANGED notKeepAlive
    \/ KaRecordNewConn /\ UNCHANGED notKeepAlive
    \/ KaRecordReuseReq /\ UNCHANGED notKeepAlive
    \/ RespondKeepAlive /\ UNCHANGED notKeepAlive

SpecKeepAlive == Init /\ [][NextKeepAlive]_vars


NextTickets ==
    \/ TkTick /\ UNCHANGED notTickets
    \/ TkIssue /\ UNCHANGED notTickets
    \/ TkResume /\ UNCHANGED notTickets

SpecTickets == Init /\ [][NextTickets]_vars


NextFlowControl ==
    \/ FcUpdateWindow /\ UNCHANGED notFlowControl
    \/ FcOnSettings /\ UNCHANGED notFlowControl

SpecFlowControl == Init /\ [][NextFlowControl]_vars


NextFrames ==
    \/ PfReadByte /\ UNCHANGED notFrames
    \/ PfParse /\ UNCHANGED notFrames

SpecFrames == Init /\ [][NextFrames]_vars


NextEventLoop ==
    \/ ElRegister /\ UNCHANGED notEventLoop
    \/ ElDeregister /\ UNCHANGED notEventLoop

SpecEventLoop == Init /\ [][NextEventLoop]_vars


NextQuicSched ==
    \/ QuicEnqueue /\ UNCHANGED notQuicSched
    \/ QuicNext /\ UNCHANGED notQuicSched

SpecQuicSched == Init /\ [][NextQuicSched]_vars

SpecQuicSchedLive == SpecQuicSched /\ WF_vars(QuicNext /\ UNCHANGED notQuicSched)


NextFlowMgr ==
    \/ FmConsume /\ UNCHANGED notFlowMgr
    \/ FmUpdate /\ UNCHANGED notFlowMgr

SpecFlowMgr == Init /\ [][NextFlowMgr]_vars


NextDnsRace ==
    \/ RaceSearch /\ UNCHANGED notDnsRace
    \/ RaceLoad /\ UNCHANGED notDnsRace
    \/ RaceStore /\ UNCHANGED notDnsRace

SpecDnsRace == Init /\ [][NextDnsRace]_vars


NextResumption ==
    \/ RsTick /\ UNCHANGED notResumption
    \/ RsIssue /\ UNCHANGED notResumption
    \/ RsResume /\ UNCHANGED notResumption
    \/ RsEncrypt /\ UNCHANGED notResumption

SpecResumption == Init /\ [][NextResumption]_vars

====
